---------------------------- MODULE Spec2Model ----------------------------
(***************************************************************************)
(* Model of the research pipeline engine of research-os:                   *)
(*   - ResearchSessionManager.run and its phases   (core/session.py)       *)
(*   - DebateOrchestrator.conduct_debate           (core/debate.py)        *)
(*   - VerificationEngine.verify_claim             (core/verifier.py)      *)
(*   - SourceCurator.curate                        (core/curator.py)       *)
(*   - KnowledgeGraph, call by call         (core/knowledge_graph.py)      *)
(*   - WebCrawler.crawl_multiple                   (core/crawler.py)       *)
(*   - SearchEngine.search                         (core/search.py)        *)
(*   - ResearchDatabase, the sources table         (db/database.py)        *)
(*   - WebCrawler's rate limit and retries         (core/crawler.py)       *)
(*   - VerificationEngine.verify_claims_batch      (core/verifier.py)      *)
(* Confidences and similarities are integers in hundredths (0.85 = 85).    *)
(***************************************************************************)
EXTENDS Integers, Sequences, FiniteSets, TLC

VARIABLES
    \* ---- ResearchSessionManager / ResearchSession -------------------------
    pc,              \* position of run() (name of the next call to execute)
    target,          \* argument of the next update_phase call
    mode,            \* session.mode
    enable_debate,   \* session.enable_debate
    websocket,       \* self.websocket: "None" or "connected"
    phase,           \* session.phase
    status,          \* session.status
    progress_percent,\* session.progress_percent
    phases,          \* history: the values run() assigned to session.phase
    emitted,         \* history: the events handed to emit(), in order
    last_send,       \* history: how the sends of the last emitting step went
    exc,             \* TRUE while an exception is propagating out of run()
    closed,          \* network resources whose close()/aclose() completed
    search_results,  \* number of search results _search hands to _crawl
    crawled_content, \* number of successfully crawled pages
    sources,         \* number of curated sources (len(self.sources))
    tasks,           \* state of each agent.analyze task during asyncio.gather
    claims,          \* self.claims
    claim_count,     \* session.claim_count
    edges,           \* claim-to-claim edges of self.knowledge_graph
    graph_nodes,     \* the data of the claim nodes of self.knowledge_graph
    graph_event_nodes, \* history: the claim nodes the graph event carried
    debate_result,   \* the DebateResult local of run(), NoResult when None
    debate_rounds,   \* session.debate_rounds
    final_report,    \* TRUE when session.final_report is set
    graph_data,      \* session.graph_data: the claim nodes saved with the report
    \* ---- DebateOrchestrator.conduct_debate, run on its own ------------------
    debate_pc,       \* position of conduct_debate
    agent_names,     \* the keys of agent_results, in order
    orch_rounds,     \* the local list `rounds`
    orch_calls,      \* history: per round, what each agent's call answered
    orch_result,     \* the DebateResult returned, NoResult before the return
    \* ---- VerificationEngine.verify_claim, run on its own ---------------------
    verify_pc,       \* position of verify_claim
    claim_text,      \* claim.text, a sequence of tokens
    source_text,     \* source.text, a sequence of tokens
    use_nli,         \* the use_nli argument
    semantic_result, \* what _verify_semantic returned
    invoked,         \* history: the tiers verify_claim has invoked
    verification,    \* the tuple verify_claim returned
    \* ---- SourceCurator.curate, run on its own ------------------------------
    curate_pc,       \* position of the caller of the curator
    crawled,         \* the list of CrawledContent passed to curate
    similarity,      \* cosine similarity of each pair of pages (by position)
    max_sources,     \* the max_sources argument
    curation,        \* the CurationResult returned by curate
    retained,        \* history: what _deduplicate_semantic last returned
    \* ---- KnowledgeGraph, call by call ---------------------------------------
    G,               \* self.G: the nodes with their attributes, and the edges
    claim_embeddings,\* the keys of self.claim_embeddings
    added_claims,    \* history: the claim ids passed to add_claim
    supplied_sources,\* history: the source ids passed to add_claim
    entity_labels,   \* history: the entity labels of the claims added
    latest,          \* history: per ordered node pair, the relation last set
    graph_calls,     \* number of calls made on the graph
    last_add,        \* history: the arguments of the last add_claim of a new claim
    add_order,       \* history: the ids of the new claims, in the order added
    \* ---- WebCrawler.crawl_multiple as _crawl calls it ------------------------
    crawl_pc,        \* position of the session around crawl_multiple
    urls,            \* the URLs passed to crawl_multiple
    max_concurrent,  \* self.max_concurrent
    retry_with_playwright, \* self.retry_with_playwright
    semaphore,       \* the value of self.semaphore
    fetches,         \* per URL, the state of its crawl task
    kept_content,    \* the session's crawled_content list
    kept_sources,    \* the session's sources list
    \* ---- SearchEngine.search --------------------------------------------------
    search_pc,       \* position of search
    search_provider, \* settings.search_provider
    api_key,         \* whether the key of the configured provider is set
    max_results,     \* the max_results argument
    search_found,    \* the local list `results`, by provider
    attempt,         \* attempts of _search_duckduckgo_with_retry used up
    provider_calls,  \* history: the provider calls made, with their outcome
    returned,        \* the list search returned
    \* ---- ResearchDatabase: the sources table ----------------------------------
    sources_table,   \* the rows of the table `sources`
    db_now,          \* the clock of the store, in seconds
    saved_source,    \* history: the Source last passed to save_source
    retrieved,       \* what the last get_source call returned
    \* ---- WebCrawler.crawl in time: the per-domain rate limit -----------------
    rate_now,        \* time.time()
    _last_request_time, \* self._last_request_time
    rate_domains,    \* the host of the URL of each crawl task
    rate_limit,      \* self.max_concurrent
    rate_semaphore,  \* the value of self.semaphore
    rate_tasks,      \* per crawl task, its position and the end of its sleep
    requests,        \* history: the requests started, with their time
    \* ---- WebCrawler._crawl_with_httpx for one URL -----------------------------
    traced_fetch,    \* the state of the fetch
    traced_fallback, \* self.retry_with_playwright
    traced_answers,  \* history: the answers the lightweight client got
    \* ---- VerificationEngine.verify_claims_batch -----------------------------
    batch_pc,        \* position of verify_claims_batch
    batch_input,     \* history: the claims as they were passed in
    batch_claims,    \* the Claim objects of the argument `claims`
    batch_sources,   \* the keys of the argument `sources`
    verified_claims, \* the local list, as indices of the objects it holds
    batch_invoked,   \* history: per claim, whether verify_claim was called
    \* ---- SourceCurator._score_domain -----------------------------------------
    trusted_order,   \* the order in which this process iterates TRUSTED_DOMAINS
    scored_domain,   \* the domain _score_domain was last called with
    domain_authority, \* history: what that call returned, <<>> before any call
    \* ---- VerificationEngine._chunk_text ---------------------------------------
    chunk_pc,        \* position of _chunk_text
    chunk_args,      \* len(text), chunk_size and overlap of the call
    chunk_start,     \* the local `start`
    chunks           \* the local list, each chunk as its offset and unstripped length

sessionVars == <<pc, target, mode, enable_debate, websocket, phase, status,
                 progress_percent, phases, emitted, last_send, exc, closed,
                 search_results, crawled_content, sources, tasks,
                 claims, claim_count, edges, graph_nodes, graph_event_nodes,
                 debate_result, debate_rounds, final_report, graph_data>>

orchestratorVars ==
    <<debate_pc, agent_names, orch_rounds, orch_calls, orch_result>>

verifierVars == <<verify_pc, claim_text, source_text, use_nli, semantic_result,
                  invoked, verification>>

curatorVars == <<curate_pc, crawled, similarity, max_sources, curation,
                 retained>>

graphVars == <<G, claim_embeddings, added_claims, supplied_sources,
               entity_labels, latest, graph_calls, last_add, add_order>>

crawlerVars == <<crawl_pc, urls, max_concurrent, retry_with_playwright,
                 semaphore, fetches, kept_content, kept_sources>>

searchVars == <<search_pc, search_provider, api_key, max_results, search_found,
                attempt, provider_calls, returned>>

storeVars == <<sources_table, db_now, saved_source, retrieved>>

\* the components that are modelled on their own, beside the three above
rateVars == <<rate_now, _last_request_time, rate_domains, rate_limit,
              rate_semaphore, rate_tasks, requests>>

traceVars == <<traced_fetch, traced_fallback, traced_answers>>

batchVars == <<batch_pc, batch_input, batch_claims, batch_sources,
               verified_claims, batch_invoked>>

scoreVars == <<trusted_order, scored_domain, domain_authority>>

chunkVars == <<chunk_pc, chunk_args, chunk_start, chunks>>

componentVars == <<curatorVars, graphVars, crawlerVars, searchVars, storeVars,
                   rateVars, traceVars,
      batchVars,
      scoreVars,
      chunkVars>>

coreVars == <<sessionVars, orchestratorVars, verifierVars>>

\* what the actions of one component leave alone
notCurator ==
    <<coreVars, graphVars, crawlerVars, searchVars, storeVars,
      rateVars, traceVars,
      batchVars,
      scoreVars,
      chunkVars>>

notGraph ==
    <<coreVars, curatorVars, crawlerVars, searchVars, storeVars,
      rateVars, traceVars,
      batchVars,
      scoreVars,
      chunkVars>>

notCrawler ==
    <<coreVars, curatorVars, graphVars, searchVars, storeVars,
      rateVars, traceVars,
      batchVars,
      scoreVars,
      chunkVars>>

notSearch ==
    <<coreVars, curatorVars, graphVars, crawlerVars, storeVars,
      rateVars, traceVars,
      batchVars,
      scoreVars,
      chunkVars>>

notStore ==
    <<coreVars, curatorVars, graphVars, crawlerVars, searchVars,
      rateVars, traceVars,
      batchVars,
      scoreVars,
      chunkVars>>

notRate ==
    <<coreVars, curatorVars, graphVars, crawlerVars, searchVars, storeVars,
      traceVars,
      batchVars,
      scoreVars,
      chunkVars>>

notTrace ==
    <<coreVars, curatorVars, graphVars, crawlerVars, searchVars, storeVars,
      rateVars,
      batchVars,
      scoreVars,
      chunkVars>>

notBatch ==
    <<coreVars, curatorVars, graphVars, crawlerVars, searchVars, storeVars,
      rateVars, traceVars,
      scoreVars,
      chunkVars>>

notScore ==
    <<coreVars, curatorVars, graphVars, crawlerVars, searchVars, storeVars,
      rateVars, traceVars, batchVars,
      chunkVars>>

notChunk ==
    <<coreVars, curatorVars, graphVars, crawlerVars, searchVars, storeVars,
      rateVars, traceVars, batchVars, scoreVars>>

vars == <<sessionVars, orchestratorVars, verifierVars, componentVars>>

-----------------------------------------------------------------------------
(* Bounds of the model *)
MaxResults == 1          \* most unique search results a run sees

-----------------------------------------------------------------------------
(* ResearchPhase (db/models.py) and the fixed data of run() *)

PhaseOrder ==
    <<"PLANNING", "SEARCHING", "CRAWLING", "CURATING", "EXTRACTING",
      "BUILDING_GRAPH", "VERIFYING", "DEBATING", "SYNTHESIZING", "COMPLETE">>

ResearchPhase == {PhaseOrder[i] : i \in 1..Len(PhaseOrder)} \cup {"ERROR"}

Modes == {"quick", "standard", "deep", "medical"}

\* the agents of the extraction fan-out, in the order of the list in the code
Agents == <<"scout", "skeptic", "analyst">>

AgentNames == {Agents[i] : i \in 1..Len(Agents)}

\* the agents closed by _close_agents, in the order they are closed
CloseOrder == <<"scout", "skeptic", "analyst", "synthesizer">>

Resources == {"http_client"} \cup {CloseOrder[i] : i \in 1..Len(CloseOrder)}

\* PhaseProgress with the values of CRAWLING and CURATING exchanged
\* (sensitivity of C7_Progress)
PhaseProgress_exchanged(p) ==
    CASE p = "PLANNING"       -> 5
      [] p = "SEARCHING"      -> 10
      [] p = "CRAWLING"       -> 30
      [] p = "CURATING"       -> 20
      [] p = "EXTRACTING"     -> 45
      [] p = "BUILDING_GRAPH" -> 60
      [] p = "VERIFYING"      -> 70
      [] p = "DEBATING"       -> 80
      [] p = "SYNTHESIZING"   -> 90
      [] p = "COMPLETE"       -> 100

\* progress value run() passes to update_phase for each phase
PhaseProgress(p) ==
    CASE p = "PLANNING"       -> 5
      [] p = "SEARCHING"      -> 10
      [] p = "CRAWLING"       -> 20
      [] p = "CURATING"       -> 30
      [] p = "EXTRACTING"     -> 45
      [] p = "BUILDING_GRAPH" -> 60
      [] p = "VERIFYING"      -> 70
      [] p = "DEBATING"       -> 80
      [] p = "SYNTHESIZING"   -> 90
      [] p = "COMPLETE"       -> 100

\* the call of run() that follows update_phase(p)
BodyOf(p) ==
    CASE p = "PLANNING"       -> "_planning"
      [] p = "SEARCHING"      -> "_search"
      [] p = "CRAWLING"       -> "_crawl"
      [] p = "CURATING"       -> "_curate"
      [] p = "EXTRACTING"     -> "_extract_claims"
      [] p = "BUILDING_GRAPH" -> "_build_graph"
      [] p = "VERIFYING"      -> "_verify_claims"
      [] p = "DEBATING"       -> "_debate"
      [] p = "SYNTHESIZING"   -> "_synthesize"
      [] p = "COMPLETE"       -> "completed"

\* create_research_session: the debate flag a mode configures
\* (standard keeps the model default, True)
ModeEnablesDebate(m) == m # "quick"

-----------------------------------------------------------------------------
(* Events (db/models.py) *)

Event(type, p, progress, agent, n) ==
    [type |-> type, phase |-> p, progress |-> progress, agent |-> agent, n |-> n]

StatusEvent(p, progress) == Event("status", p, progress, "", 0)
ErrorEvent == Event("error", "", 0, "", 0)
SourceEvent(i) == Event("source", "", 0, "", i)
ClaimEvent(id, agent) == Event("claim", "", 0, agent, id)
GraphUpdateEvent(nodes) == Event("graph", "", 0, "", nodes)
DebateEvent(round_number, agent, confidence) ==
    Event("debate", "", confidence, agent, round_number)
ReportEvent == Event("report", "", 0, "", 0)

\* the events are handed to emit
emit(events) == emitted' = emitted \o events

Websockets == {"None", "connected"}

\* how websocket.send_json can go for the events of one step: every send
\* works or one of them raises; without a websocket nothing is sent
Sends(socket) == IF socket = "None" THEN {"none"} ELSE {"ok", "raises"}

\* (sensitivity of C36_EmitSwallows): emit without its try statement
emit_try_unguarded(socket, send) ==
    IF socket = "None" THEN "skipped"
    ELSE IF send = "raises" THEN "raised" ELSE "sent"

\* the body of emit: `if self.websocket:` and the try statement around the
\* send, whose except clause logs the exception and goes on
emit_try(socket, send) ==
    IF socket = "None" THEN "skipped"
    ELSE IF send = "raises" THEN "swallowed" ELSE "sent"

\* where a caller of emit goes on: an exception that left emit would leave
\* the caller as well
AfterEmit(outcome, continue) ==
    IF outcome = "raised" THEN pc' = "except" /\ UNCHANGED target
    ELSE continue

-----------------------------------------------------------------------------
(* DebateOrchestrator (core/debate.py): the pure part *)

ConsensusThreshold == 70      \* self.consensus_threshold = 0.7
ResolveVarianceLimit == 20    \* confidence_variance < 0.2
ResolveMeanLimit == 50        \* avg_confidence > 0.5
DefaultConfidence == 50       \* result_json.get("confidence", 0.5)

NoPosition == "None"

\* an answer of the completion call of one agent: the call failed (HTTP error,
\* undecodable JSON, JSON that is not an object), or it returned a JSON object:
\* one with the fields asked for and a number as confidence, the object {},
\* or one whose confidence is not a number ("confidence": "high")
CallFailed == [ok |-> FALSE, confidence |-> 0, confidence_type |-> "missing"]
CallReturned(c) == [ok |-> TRUE, confidence |-> c, confidence_type |-> "float"]
CallReturnedEmpty ==
    [ok |-> TRUE, confidence |-> 0, confidence_type |-> "missing"]
CallReturnedUntyped ==
    [ok |-> TRUE, confidence |-> 0, confidence_type |-> "str"]
CallOutcomes(confs) == {CallFailed} \cup {CallReturned(c) : c \in confs}

\* the position text an agent's completion states
StanceOf(agent) ==
    CASE agent = "scout"   -> "stance of scout"
      [] agent = "skeptic" -> "stance of skeptic"
      [] agent = "analyst" -> "stance of analyst"
      [] OTHER             -> "stance"

\* DebatePosition is a dataclass: the type of a field is not checked, and
\* confidence_type tells what the confidence field holds (confidence is 0
\* when it is not a number)
DebatePosition(agent, position, argument, confidence) ==
    [agent_name |-> agent, position |-> position, argument |-> argument,
     confidence |-> confidence, confidence_type |-> "float"]

Untyped(pos) == [pos EXCEPT !.confidence = 0, !.confidence_type = "str"]

\* one iteration of the loop of _round1_positions
Round1Position(agent, o) ==
    IF ~o.ok
    THEN DebatePosition(agent, "Error generating position", "error", 0)
    ELSE IF o.confidence_type = "missing"
    THEN DebatePosition(agent, "", "", DefaultConfidence)
    ELSE IF o.confidence_type = "str"
    THEN Untyped(DebatePosition(agent, StanceOf(agent), "reasoning", 0))
    ELSE DebatePosition(agent, StanceOf(agent), "reasoning", o.confidence)

\* an iteration of round 2 that treats a failed call as round 1 does
\* (sensitivity of C24_RebuttalsKeepPositions)
Round2Rebuttal_as_round1(pos, o) == Round1Position(pos.agent_name, o)

\* one iteration of the loop of _round2_rebuttals
Round2Rebuttal(pos, o) ==
    IF ~o.ok
    THEN pos
    ELSE IF o.confidence_type = "missing"
    THEN [pos EXCEPT !.argument = ""]
    ELSE IF o.confidence_type = "str"
    THEN Untyped([pos EXCEPT !.argument = "rebuttal"])
    ELSE DebatePosition(pos.agent_name, pos.position, "rebuttal", o.confidence)

\* sum(confidences) raises TypeError when a confidence is not a number
SumRaises(positions) ==
    \E i \in 1..Len(positions) : positions[i].confidence_type # "float"

RECURSIVE SumConfidence(_)
SumConfidence(positions) ==
    IF positions = <<>> THEN 0
    ELSE Head(positions).confidence + SumConfidence(Tail(positions))

MaxConfidence(positions) ==
    CHOOSE c \in {positions[i].confidence : i \in 1..Len(positions)} :
        \A j \in 1..Len(positions) : positions[j].confidence <= c

MinConfidence(positions) ==
    CHOOSE c \in {positions[i].confidence : i \in 1..Len(positions)} :
        \A j \in 1..Len(positions) : positions[j].confidence >= c

\* max(positions, key=lambda p: p.confidence): the first of the maximal ones
BestPosition(positions) ==
    positions[CHOOSE i \in 1..Len(positions) :
        /\ \A j \in 1..Len(positions) :
               positions[j].confidence <= positions[i].confidence
        /\ \A j \in 1..(i - 1) :
               positions[j].confidence < positions[i].confidence]

\* sum(confidences) / len(confidences), in hundredths, rounded down; the
\* comparisons below are done on the exact quotient
AvgConfidence(positions) ==
    IF positions = <<>> THEN 0 ELSE SumConfidence(positions) \div Len(positions)

AvgExceeds(positions, limit) ==
    /\ positions # <<>>
    /\ SumConfidence(positions) > limit * Len(positions)

_check_consensus(positions) ==
    IF Len(positions) < 2
    THEN [consensus  |-> TRUE,
          position   |-> IF positions # <<>> THEN positions[1].position
                         ELSE NoPosition,
          confidence |-> 100]
    ELSE IF AvgExceeds(positions, ConsensusThreshold)
    THEN [consensus  |-> TRUE,
          position   |-> BestPosition(positions).position,
          confidence |-> BestPosition(positions).confidence]
    ELSE [consensus  |-> FALSE,
          position   |-> NoPosition,
          confidence |-> AvgConfidence(positions)]

\* _resolve_debate without the test of the confidence spread
\* (sensitivity of C9_ConsensusAfterRebuttals)
_resolve_debate_any_spread(rounds) ==
    IF rounds = <<>>
    THEN [consensus |-> FALSE, position |-> NoPosition, confidence |-> 0]
    ELSE LET final_round == rounds[Len(rounds)]
         IN  IF AvgExceeds(final_round, ResolveMeanLimit)
             THEN [consensus  |-> TRUE,
                   position   |-> BestPosition(final_round).position,
                   confidence |-> AvgConfidence(final_round)]
             ELSE [consensus  |-> FALSE,
                   position   |-> NoPosition,
                   confidence |-> AvgConfidence(final_round)]

_resolve_debate(rounds) ==
    IF rounds = <<>>
    THEN [consensus |-> FALSE, position |-> NoPosition, confidence |-> 0]
    ELSE LET final_round == rounds[Len(rounds)]
             confidence_variance ==
                 IF final_round # <<>>
                 THEN MaxConfidence(final_round) - MinConfidence(final_round)
                 ELSE 0
         IN  IF /\ confidence_variance < ResolveVarianceLimit
                /\ AvgExceeds(final_round, ResolveMeanLimit)
             THEN [consensus  |-> TRUE,
                   position   |-> BestPosition(final_round).position,
                   confidence |-> AvgConfidence(final_round)]
             ELSE [consensus  |-> FALSE,
                   position   |-> NoPosition,
                   confidence |-> AvgConfidence(final_round)]

DebateResult(rounds, consensus_reached, winning_position, confidence) ==
    [rounds |-> rounds, consensus_reached |-> consensus_reached,
     winning_position |-> winning_position, confidence |-> confidence]

NoResult == DebateResult(<<>>, FALSE, "no debate", 0)

\* the result conduct_debate builds after round 1 (early consensus)
EarlyResult(round1) ==
    DebateResult(<<round1>>, TRUE, _check_consensus(round1).position,
                 _check_consensus(round1).confidence)

\* the result conduct_debate builds after round 2
FinalResult(round1, round2) ==
    LET resolution == _resolve_debate(<<round1, round2>>)
    IN  DebateResult(<<round1, round2>>, resolution.consensus,
                     resolution.position, resolution.confidence)

\* conduct_debate without the early return (sensitivity of C8_DebateRounds)
conduct_debate_no_early_return(names, out1, out2) ==
    LET round1 == [i \in 1..Len(names) |-> Round1Position(names[i], out1[i])]
        round2 == [i \in 1..Len(names) |-> Round2Rebuttal(round1[i], out2[i])]
    IN  FinalResult(round1, round2)

\* conduct_debate for the agents `names`, the calls of round 1 answering out1
\* and those of round 2 (when it is run) answering out2
conduct_debate(names, out1, out2) ==
    LET round1 == [i \in 1..Len(names) |-> Round1Position(names[i], out1[i])]
        round2 == [i \in 1..Len(names) |-> Round2Rebuttal(round1[i], out2[i])]
    IN  IF _check_consensus(round1).consensus
        THEN EarlyResult(round1)
        ELSE FinalResult(round1, round2)

\* to_debate_rounds: the flat list of (round_number, agent, confidence) records
RECURSIVE FlatRounds(_, _)
FlatRounds(rounds, round_num) ==
    IF round_num > Len(rounds) THEN <<>>
    ELSE [i \in 1..Len(rounds[round_num]) |->
             [round_number |-> round_num,
              agent_name   |-> rounds[round_num][i].agent_name,
              confidence   |-> rounds[round_num][i].confidence]]
         \o FlatRounds(rounds, round_num + 1)

to_debate_rounds(result) == FlatRounds(result.rounds, 1)

\* debate_result.rounds.index(round_positions) + 1: the first round equal to it
RoundIndex(rounds, round_positions) ==
    CHOOSE k \in 1..Len(rounds) :
        /\ rounds[k] = round_positions
        /\ \A j \in 1..(k - 1) : rounds[j] # round_positions

\* the debate events _debate emits, round by round
RECURSIVE DebateEvents(_, _)
DebateEvents(rounds, k) ==
    IF k > Len(rounds) THEN <<>>
    ELSE [i \in 1..Len(rounds[k]) |->
             DebateEvent(RoundIndex(rounds, rounds[k]),
                         rounds[k][i].agent_name, rounds[k][i].confidence)]
         \o DebateEvents(rounds, k + 1)

-----------------------------------------------------------------------------
(* KnowledgeGraph (core/knowledge_graph.py): what the session needs of it *)

\* the texts a claim can carry, by the indicator words they hold
ClaimTexts == {"plain", "however", "supports", "however supports"}

HasContradictionIndicator(text) == text \in {"however", "however supports"}

HasSupportIndicator(text) == text \in {"supports", "however supports"}

\* (sensitivity of C32_LinkedEdges): the support indicators looked for first
_determine_relation_support_first(text) ==
    IF HasSupportIndicator(text) THEN "SUPPORTS"
    ELSE IF HasContradictionIndicator(text) THEN "CONTRADICTS"
    ELSE "RELATED_TO"

\* _determine_relation: decided by the text of the new claim alone
_determine_relation(text) ==
    IF HasContradictionIndicator(text) THEN "CONTRADICTS"
    ELSE IF HasSupportIndicator(text) THEN "SUPPORTS"
    ELSE "RELATED_TO"

GraphEdge(from, to, relation) == [from |-> from, to |-> to, relation |-> relation]

\* find_contradictions: one entry per CONTRADICTS edge
find_contradictions(es) == {e \in es : e.relation = "CONTRADICTS"}

-----------------------------------------------------------------------------
(* ResearchSessionManager (core/session.py) *)

\* the answers the completion calls of one round of a session's debate give,
\* agent by agent
SessionAnswers ==
    {<<CallReturned(90), CallReturned(90), CallReturned(90)>>,
     <<CallReturned(60), CallReturned(60), CallFailed>>,
     <<CallFailed, CallFailed, CallFailed>>}

\* claim_data["text"] or ["confidence"] of a type the Claim model rejects
Malformed == "MALFORMED"

TaskIdle == [state |-> "idle", claims |-> <<>>]
TaskRunning == [state |-> "running", claims |-> <<>>]
TaskRaised == [state |-> "raised", claims |-> <<>>]
TaskReturned(texts) == [state |-> "returned", claims |-> texts]

\* the claims lists an AgentResult of a session carries
SessionClaimLists == {<<>>, <<"plain">>, <<"however">>, <<Malformed>>}

\* what agent.analyze can end with: an exception, or an AgentResult whose
\* claims list is empty (also the fallback result of a parse error) or holds
\* claim dicts, well-typed or not; the analyst extracts per source
AnalyzeOutcomes(agent, nsources) ==
    {TaskRaised} \cup
    {TaskReturned(texts) :
        texts \in IF agent = "analyst" /\ nsources = 0 THEN {<<>>}
                  ELSE SessionClaimLists}

\* the (agent, claim_data) pairs of the nested loop of _extract_claims, in order
RECURSIVE ClaimData(_, _)
ClaimData(ts, i) ==
    IF i > Len(Agents) THEN <<>>
    ELSE (IF ts[Agents[i]].state = "returned"
          THEN [k \in 1..Len(ts[Agents[i]].claims) |->
                   [agent |-> Agents[i], text |-> ts[Agents[i]].claims[k]]]
          ELSE <<>>)
         \o ClaimData(ts, i + 1)

\* the number of leading entries the Claim model accepts
RECURSIVE ValidPrefix(_)
ValidPrefix(data) ==
    IF data = <<>> \/ Head(data).text = Malformed THEN 0
    ELSE 1 + ValidPrefix(Tail(data))

\* Claim(source_id=..., text=..., ...) for the k-th entry; has_source tells
\* whether source_id names one of self.sources
Claim(data, k, nsources) ==
    [id         |-> k,
     agent      |-> data[k].agent,
     text       |-> data[k].text,
     has_source |-> nsources > 0,
     verified   |-> FALSE,
     verification_confidence |-> 0,
     verification_writes |-> 0]

\* (sensitivity of C37_NodesUnverified): the extraction confidence (default
\* 0.5) stored as the verification confidence
ClaimNode_confidence(claim) ==
    [claim_id |-> claim.id, verified |-> claim.verified,
     verification_confidence |-> 50]

\* the data dict add_claim stores in the node of a claim: copies of the
\* claim's fields as they are at the call
ClaimNode(claim) ==
    [claim_id |-> claim.id, verified |-> claim.verified,
     verification_confidence |-> claim.verification_confidence]

\* to_vis_data: the data of every claim node, as the graph holds it
to_vis_data(nodes) == [k \in 1..Len(nodes) |-> nodes[k]]

\* the confidence verify_claim returns with a verdict: that of a containment,
\* or the similarity of a best attempt
VerdictConfidence(v) == IF v THEN 95 ELSE 60

ClaimEvents(data, n) == [k \in 1..n |-> ClaimEvent(k, data[k].agent)]

\* (sensitivity of C19_ClaimsKept): written whether or not a source is found
Verified_without_source(c, v) ==
    [c EXCEPT !.verified = v,
              !.verification_confidence = VerdictConfidence(v),
              !.verification_writes = c.verification_writes + 1]

\* the claim after the verification fields are written by _verify_claims
Verified(c, v) ==
    IF c.has_source
    THEN [c EXCEPT !.verified = v,
                   !.verification_confidence = VerdictConfidence(v),
                   !.verification_writes = c.verification_writes + 1]
    ELSE c

\* what verifier.verify_claim answers for the claims of a session, claim by
\* claim: every claim verified, none, or every other one
SessionVerdicts(n) ==
    {[k \in 1..n |-> TRUE], [k \in 1..n |-> FALSE], [k \in 1..n |-> k % 2 = 1]}

\* DebateGate with either condition sufficing (sensitivity of C2_DebateGate)
DebateGate_either(enabled, contradictions) ==
    enabled \/ Cardinality(contradictions) >= 1

\* the branch taken after _verify_claims (run, "Phase 8: Debate (conditional)")
DebateGate(enabled, contradictions) ==
    enabled /\ Cardinality(contradictions) >= 1

AfterVerifying(enabled, contradictions) ==
    IF DebateGate(enabled, contradictions) THEN "DEBATING" ELSE "SYNTHESIZING"

cfgVars == <<mode, enable_debate, websocket>>
phaseVars == <<phase, status, progress_percent, phases>>
eventVars == <<emitted, last_send>>
closeVars == <<exc, closed>>
crawlVars == <<search_results, crawled_content, sources>>
nodeVars == <<graph_nodes, graph_event_nodes>>
claimVars == <<tasks, claims, claim_count, edges, nodeVars>>
reportVars == <<final_report, graph_data>>
debateVars == <<debate_result, debate_rounds>>

\* the manager after construction, with the websocket it was given
SessionInitWith(socket) ==
    /\ pc = "start"
    /\ target = "PLANNING"
    /\ mode \in Modes
    /\ enable_debate = ModeEnablesDebate(mode)
    /\ websocket = socket
    /\ phase = "PLANNING"
    /\ status = "active"
    /\ progress_percent = 0
    /\ phases = <<>>
    /\ emitted = <<>>
    /\ last_send = "none"
    /\ exc = FALSE
    /\ closed = {}
    /\ search_results = 0
    /\ crawled_content = 0
    /\ sources = 0
    /\ tasks = [a \in AgentNames |-> TaskIdle]
    /\ claims = <<>>
    /\ claim_count = 0
    /\ edges = {}
    /\ graph_nodes = <<>>
    /\ graph_event_nodes = <<>>
    /\ debate_result = NoResult
    /\ debate_rounds = 0
    /\ final_report = FALSE
    /\ graph_data = <<>>

\* a session that is not streamed: ResearchSessionManager(session)
SessionInit == SessionInitWith("None")

\* the body of a phase returned: run() goes on to the next update_phase
Advance(next) == pc' = "update_phase" /\ target' = next

\* an exception leaves the try block of run()
Raise == pc' = "except" /\ UNCHANGED target

\* run, up to the try statement: the HTTP client is created
run_start ==
    /\ UNCHANGED <<orchestratorVars, verifierVars, componentVars>>
    /\ pc = "start"
    /\ pc' = "update_phase"
    /\ UNCHANGED <<target, cfgVars, phaseVars, eventVars, closeVars, crawlVars,
                   claimVars, debateVars, reportVars>>

update_phase_emitting(outcome) ==
    /\ UNCHANGED <<orchestratorVars, verifierVars, componentVars>>
    /\ pc = "update_phase"
    /\ phase' = target
    /\ progress_percent' = PhaseProgress(target)
    /\ phases' = Append(phases, target)
    /\ emit(<<StatusEvent(target, PhaseProgress(target))>>)
    /\ AfterEmit(outcome, pc' = BodyOf(target) /\ UNCHANGED target)
    /\ UNCHANGED <<cfgVars, status, closeVars, crawlVars, claimVars,
                   debateVars, reportVars>>

\* update_phase, however its sends go
update_phase ==
    \E send \in Sends(websocket) :
        /\ update_phase_emitting(emit_try(websocket, send))
        /\ last_send' = send

\* update_phase when db.update_session raises: the fields are already set
update_phase_db_error ==
    /\ UNCHANGED <<orchestratorVars, verifierVars, componentVars>>
    /\ pc = "update_phase"
    /\ phase' = target
    /\ progress_percent' = PhaseProgress(target)
    /\ phases' = Append(phases, target)
    /\ Raise
    /\ UNCHANGED <<cfgVars, status, eventVars, closeVars, crawlVars, claimVars,
                   debateVars, reportVars>>

_planning ==
    /\ UNCHANGED <<orchestratorVars, verifierVars, componentVars>>
    /\ pc = "_planning"
    /\ Advance("SEARCHING")
    /\ UNCHANGED <<cfgVars, phaseVars, eventVars, closeVars, crawlVars,
                   claimVars, debateVars, reportVars>>

_search ==
    /\ UNCHANGED <<orchestratorVars, verifierVars, componentVars>>
    /\ pc = "_search"
    /\ search_results' \in 0..MaxResults
    /\ Advance("CRAWLING")
    /\ UNCHANGED <<cfgVars, phaseVars, eventVars, closeVars, crawled_content,
                   sources, claimVars, debateVars, reportVars>>

_crawl_emitting(outcome) ==
    /\ UNCHANGED <<orchestratorVars, verifierVars, componentVars>>
    /\ pc = "_crawl"
    /\ crawled_content' \in 0..search_results
    /\ search_results' = 0
    /\ emit([i \in 1..crawled_content' |-> SourceEvent(i)])
    /\ AfterEmit(outcome, Advance("CURATING"))
    /\ UNCHANGED <<cfgVars, phaseVars, closeVars, sources, claimVars,
                   debateVars, reportVars>>

\* _crawl, however its sends go
_crawl ==
    \E send \in Sends(websocket) :
        /\ _crawl_emitting(emit_try(websocket, send))
        /\ last_send' = send

_curate ==
    /\ UNCHANGED <<orchestratorVars, verifierVars, componentVars>>
    /\ pc = "_curate"
    /\ sources' \in 0..crawled_content
    /\ Advance("EXTRACTING")
    /\ UNCHANGED <<cfgVars, phaseVars, eventVars, closeVars, search_results,
                   crawled_content, claimVars, debateVars, reportVars>>

\* _curate when db.save_source raises
_curate_db_error ==
    /\ UNCHANGED <<orchestratorVars, verifierVars, componentVars>>
    /\ pc = "_curate"
    /\ sources' \in 1..crawled_content
    /\ Raise
    /\ UNCHANGED <<cfgVars, phaseVars, eventVars, closeVars, search_results,
                   crawled_content, claimVars, debateVars, reportVars>>

\* _extract_claims, up to asyncio.gather: the three analyze tasks are started
_extract_claims ==
    /\ UNCHANGED <<orchestratorVars, verifierVars, componentVars>>
    /\ pc = "_extract_claims"
    /\ tasks' = [a \in AgentNames |-> TaskRunning]
    /\ pc' = "gather"
    /\ UNCHANGED <<target, cfgVars, phaseVars, eventVars, closeVars, crawlVars,
                   claims, claim_count, edges, nodeVars, debateVars, reportVars>>

\* one analyze task ends, in any order with the others
analyze(a) ==
    /\ UNCHANGED <<orchestratorVars, verifierVars, componentVars>>
    /\ pc = "gather"
    /\ tasks[a].state = "running"
    /\ \E o \in AnalyzeOutcomes(a, sources) : tasks' = [tasks EXCEPT ![a] = o]
    /\ UNCHANGED <<pc, target, cfgVars, phaseVars, eventVars, closeVars,
                   crawlVars, claims, claim_count, edges, nodeVars, debateVars,
                   reportVars>>

GatherDone == \A a \in AgentNames : tasks[a].state \in {"raised", "returned"}

\* _extract_claims after gather, every claim dict being accepted
extract_collect_emitting(outcome) ==
    /\ UNCHANGED <<orchestratorVars, verifierVars, componentVars>>
    /\ pc = "gather"
    /\ GatherDone
    /\ LET data == ClaimData(tasks, 1)
       IN  /\ ValidPrefix(data) = Len(data)
           /\ claims' = [k \in 1..Len(data) |-> Claim(data, k, sources)]
           /\ claim_count' = Len(data)
           /\ emit(ClaimEvents(data, Len(data)))
    /\ tasks' = [a \in AgentNames |-> TaskIdle]
    /\ AfterEmit(outcome, Advance("BUILDING_GRAPH"))
    /\ UNCHANGED <<cfgVars, phaseVars, closeVars, crawlVars, edges, nodeVars, debateVars,
                   reportVars>>

\* extract_collect, however its sends go
extract_collect ==
    \E send \in Sends(websocket) :
        /\ extract_collect_emitting(emit_try(websocket, send))
        /\ last_send' = send

\* _extract_claims after gather, Claim(...) rejecting one of the claim dicts
extract_collect_error_emitting(outcome) ==
    /\ UNCHANGED <<orchestratorVars, verifierVars, componentVars>>
    /\ pc = "gather"
    /\ GatherDone
    /\ LET data == ClaimData(tasks, 1)
       IN  /\ ValidPrefix(data) < Len(data)
           /\ emit(ClaimEvents(data, ValidPrefix(data)))
    /\ tasks' = [a \in AgentNames |-> TaskIdle]
    /\ AfterEmit(outcome, Raise)
    /\ UNCHANGED <<cfgVars, phaseVars, closeVars, crawlVars, claims,
                   claim_count, edges, nodeVars, debateVars, reportVars>>

\* extract_collect_error, however its sends go
extract_collect_error ==
    \E send \in Sends(websocket) :
        /\ extract_collect_error_emitting(emit_try(websocket, send))
        /\ last_send' = send

\* _build_graph: every claim is added in list order and linked to the claims
\* added before it that the embedding model finds similar
_build_graph_emitting(outcome) ==
    /\ UNCHANGED <<orchestratorVars, verifierVars, componentVars>>
    /\ pc = "_build_graph"
    /\ \E similar \in SUBSET {<<i, j>> \in (1..Len(claims)) \X (1..Len(claims)) : j < i} :
          edges' = {GraphEdge(ij[1], ij[2], _determine_relation(claims[ij[1]].text)) :
                       ij \in similar}
    /\ graph_nodes' = [k \in 1..Len(claims) |-> ClaimNode(claims[k])]
    /\ graph_event_nodes' = to_vis_data(graph_nodes')
    /\ emit(<<GraphUpdateEvent(Len(claims))>>)
    /\ AfterEmit(outcome, Advance("VERIFYING"))
    /\ UNCHANGED <<cfgVars, phaseVars, closeVars, crawlVars, tasks, claims,
                   claim_count, debateVars, reportVars>>

\* _build_graph, however its sends go
_build_graph ==
    \E send \in Sends(websocket) :
        /\ _build_graph_emitting(emit_try(websocket, send))
        /\ last_send' = send

_verify_claims ==
    /\ UNCHANGED <<orchestratorVars, verifierVars, componentVars>>
    /\ pc = "_verify_claims"
    /\ \E v \in SessionVerdicts(Len(claims)) :
          claims' = [k \in 1..Len(claims) |-> Verified(claims[k], v[k])]
    /\ Advance(AfterVerifying(enable_debate, find_contradictions(edges)))
    /\ UNCHANGED <<cfgVars, phaseVars, eventVars, closeVars, crawlVars, tasks,
                   claim_count, edges, nodeVars, debateVars, reportVars>>

\* _verify_claims when db.save_claim raises for the n-th claim
_verify_claims_db_error ==
    /\ UNCHANGED <<orchestratorVars, verifierVars, componentVars>>
    /\ pc = "_verify_claims"
    /\ \E n \in 1..Len(claims), v \in SessionVerdicts(Len(claims)) :
          claims' = [k \in 1..Len(claims) |->
                        IF k <= n THEN Verified(claims[k], v[k]) ELSE claims[k]]
    /\ Raise
    /\ UNCHANGED <<cfgVars, phaseVars, eventVars, closeVars, crawlVars, tasks,
                   claim_count, edges, nodeVars, debateVars, reportVars>>

_debate_emitting(outcome) ==
    /\ UNCHANGED <<orchestratorVars, verifierVars, componentVars>>
    /\ pc = "_debate"
    /\ \E out1, out2 \in SessionAnswers :
          LET result == conduct_debate(Agents, out1, out2)
          IN  /\ debate_result' = result
              /\ debate_rounds' = Len(result.rounds)
              /\ emit(DebateEvents(result.rounds, 1))
    /\ AfterEmit(outcome, Advance("SYNTHESIZING"))
    /\ UNCHANGED <<cfgVars, phaseVars, closeVars, crawlVars, claimVars,
                   reportVars>>

\* _debate, however its sends go
_debate ==
    \E send \in Sends(websocket) :
        /\ _debate_emitting(emit_try(websocket, send))
        /\ last_send' = send

\* _debate when db.save_debate_round raises
_debate_db_error ==
    /\ UNCHANGED <<orchestratorVars, verifierVars, componentVars>>
    /\ pc = "_debate"
    /\ Raise
    /\ UNCHANGED <<cfgVars, phaseVars, eventVars, closeVars, crawlVars,
                   claimVars, debateVars, reportVars>>

_synthesize_emitting(outcome) ==
    /\ UNCHANGED <<orchestratorVars, verifierVars, componentVars>>
    /\ pc = "_synthesize"
    /\ final_report' = TRUE
    /\ graph_data' = to_vis_data(graph_nodes)
    /\ emit(<<ReportEvent>>)
    /\ AfterEmit(outcome, Advance("COMPLETE"))
    /\ UNCHANGED <<cfgVars, phaseVars, closeVars, crawlVars, claimVars,
                   debateVars>>

\* _synthesize, however its sends go
_synthesize ==
    \E send \in Sends(websocket) :
        /\ _synthesize_emitting(emit_try(websocket, send))
        /\ last_send' = send

\* run, after update_phase(COMPLETE): the session is marked completed and saved
completed ==
    /\ UNCHANGED <<orchestratorVars, verifierVars, componentVars>>
    /\ pc = "completed"
    /\ status' = "completed"
    /\ pc' = "finally"
    /\ UNCHANGED <<target, cfgVars, phase, progress_percent, phases, eventVars,
                   closeVars, crawlVars, claimVars, debateVars, reportVars>>

completed_db_error ==
    /\ UNCHANGED <<orchestratorVars, verifierVars, componentVars>>
    /\ pc = "completed"
    /\ status' = "completed"
    /\ Raise
    /\ UNCHANGED <<cfgVars, phase, progress_percent, phases, eventVars,
                   closeVars, crawlVars, claimVars, debateVars, reportVars>>

\* run, the except clause
except_handler_emitting(outcome) ==
    /\ UNCHANGED <<orchestratorVars, verifierVars, componentVars>>
    /\ pc = "except"
    /\ status' = "error"
    /\ phase' = "ERROR"
    /\ phases' = Append(phases, "ERROR")
    /\ emit(<<ErrorEvent>>)
    /\ pc' = "finally"
    /\ exc' = IF outcome = "raised" THEN TRUE ELSE exc
    /\ UNCHANGED <<target, cfgVars, progress_percent, closed, crawlVars,
                   claimVars, debateVars, reportVars>>

\* except_handler, however its sends go
except_handler ==
    \E send \in Sends(websocket) :
        /\ except_handler_emitting(emit_try(websocket, send))
        /\ last_send' = send

\* the except clause when its db.update_session raises: no event is emitted
except_handler_db_error ==
    /\ UNCHANGED <<orchestratorVars, verifierVars, componentVars>>
    /\ pc = "except"
    /\ status' = "error"
    /\ phase' = "ERROR"
    /\ phases' = Append(phases, "ERROR")
    /\ exc' = TRUE
    /\ pc' = "finally"
    /\ UNCHANGED <<target, cfgVars, progress_percent, eventVars, closed,
                   crawlVars, claimVars, debateVars, reportVars>>

\* run, the finally clause: http_client.aclose()
finally_aclose ==
    /\ UNCHANGED <<orchestratorVars, verifierVars, componentVars>>
    /\ pc = "finally"
    /\ closed' = closed \cup {"http_client"}
    /\ pc' = "_close_agents"
    /\ UNCHANGED <<target, cfgVars, phaseVars, eventVars, exc, crawlVars,
                   claimVars, debateVars, reportVars>>

\* aclose() raises: _close_agents is not reached
finally_aclose_error ==
    /\ UNCHANGED <<orchestratorVars, verifierVars, componentVars>>
    /\ pc = "finally"
    /\ exc' = TRUE
    /\ pc' = "raised"
    /\ UNCHANGED <<target, cfgVars, phaseVars, eventVars, closed, crawlVars,
                   claimVars, debateVars, reportVars>>

\* the agents CloseOrder[1..n]
ClosedUpTo(n) == {CloseOrder[i] : i \in 1..n}

\* _close_agents: the four agent.close() calls, one after the other; run()
\* then returns the session, or re-raises the exception the handler left
_close_agents ==
    /\ UNCHANGED <<orchestratorVars, verifierVars, componentVars>>
    /\ pc = "_close_agents"
    /\ closed' = closed \cup ClosedUpTo(Len(CloseOrder))
    /\ pc' = (IF exc THEN "raised" ELSE "returned")
    /\ UNCHANGED <<target, cfgVars, phaseVars, eventVars, exc, crawlVars,
                   claimVars, debateVars, reportVars>>

\* _close_agents when the close() of the n-th agent raises: the agents after
\* it are not closed
_close_agents_error ==
    /\ UNCHANGED <<orchestratorVars, verifierVars, componentVars>>
    /\ pc = "_close_agents"
    /\ \E n \in 1..Len(CloseOrder) : closed' = closed \cup ClosedUpTo(n - 1)
    /\ exc' = TRUE
    /\ pc' = "raised"
    /\ UNCHANGED <<target, cfgVars, phaseVars, eventVars, crawlVars,
                   claimVars, debateVars, reportVars>>

-----------------------------------------------------------------------------
(* DebateOrchestrator.conduct_debate (core/debate.py), step by step *)

\* confidences the completion calls report; chosen so that every comparison on
\* hundredths below agrees with the comparison on floats the code makes
DebateConfidences == {45, 50, 60, 85}

DebateOutcomes ==
    CallOutcomes(DebateConfidences) \cup {CallReturnedEmpty, CallReturnedUntyped}

\* the agent_results dicts conduct_debate is given: none to three agents
DebateParticipants == {SubSeq(Agents, 1, n) : n \in 0..Len(Agents)}

OrchestratorIdle ==
    /\ debate_pc = "idle"
    /\ agent_names = <<>>
    /\ orch_rounds = <<>>
    /\ orch_calls = <<>>
    /\ orch_result = NoResult

OrchestratorInit ==
    /\ debate_pc = "_round1_positions"
    /\ agent_names \in DebateParticipants
    /\ orch_rounds = <<>>
    /\ orch_calls = <<>>
    /\ orch_result = NoResult

\* round1 = await self._round1_positions(...); rounds.append(round1)
_round1_positions ==
    /\ debate_pc = "_round1_positions"
    /\ \E out \in [1..Len(agent_names) -> DebateOutcomes] :
          /\ orch_rounds' = <<[i \in 1..Len(agent_names) |->
                            Round1Position(agent_names[i], out[i])]>>
          /\ orch_calls' = <<out>>
    /\ debate_pc' = "_check_consensus"
    /\ UNCHANGED <<agent_names, orch_result, sessionVars, verifierVars,
                   componentVars>>

\* _check_consensus(round1) adds up the confidences of two or more positions
_check_consensus_raises ==
    /\ debate_pc = "_check_consensus"
    /\ Len(orch_rounds[1]) >= 2
    /\ SumRaises(orch_rounds[1])
    /\ debate_pc' = "raised"
    /\ UNCHANGED <<agent_names, orch_rounds, orch_calls, orch_result,
                   sessionVars, verifierVars, componentVars>>

\* consensus_check[0] holds: the result is returned after round 1
early_consensus ==
    /\ debate_pc = "_check_consensus"
    /\ Len(orch_rounds[1]) < 2 \/ ~SumRaises(orch_rounds[1])
    /\ _check_consensus(orch_rounds[1]).consensus
    /\ orch_result' = EarlyResult(orch_rounds[1])
    /\ debate_pc' = "returned"
    /\ UNCHANGED <<agent_names, orch_rounds, orch_calls, sessionVars,
                   verifierVars, componentVars>>

\* round2 = await self._round2_rebuttals(...); rounds.append(round2)
_round2_rebuttals ==
    /\ debate_pc = "_check_consensus"
    /\ Len(orch_rounds[1]) < 2 \/ ~SumRaises(orch_rounds[1])
    /\ ~_check_consensus(orch_rounds[1]).consensus
    /\ \E out \in [1..Len(agent_names) -> DebateOutcomes] :
          /\ orch_rounds' =
                 Append(orch_rounds, [i \in 1..Len(agent_names) |->
                                      Round2Rebuttal(orch_rounds[1][i], out[i])])
          /\ orch_calls' = Append(orch_calls, out)
    /\ debate_pc' = "_resolve_debate"
    /\ UNCHANGED <<agent_names, orch_result, sessionVars, verifierVars,
                   componentVars>>

\* _resolve_debate(rounds) adds up the confidences of the final round
_resolve_debate_raises ==
    /\ debate_pc = "_resolve_debate"
    /\ SumRaises(orch_rounds[2])
    /\ debate_pc' = "raised"
    /\ UNCHANGED <<agent_names, orch_rounds, orch_calls, orch_result,
                   sessionVars, verifierVars, componentVars>>

\* resolution = self._resolve_debate(rounds); return DebateResult(...)
final_resolution ==
    /\ debate_pc = "_resolve_debate"
    /\ ~SumRaises(orch_rounds[2])
    /\ orch_result' = FinalResult(orch_rounds[1], orch_rounds[2])
    /\ debate_pc' = "returned"
    /\ UNCHANGED <<agent_names, orch_rounds, orch_calls, sessionVars,
                   verifierVars, componentVars>>

-----------------------------------------------------------------------------
(* VerificationEngine (core/verifier.py) *)
(* A text is a sequence of tokens: words in the case they are written in,  *)
(* "SP" for white space at an end of a claim, and "PASSAGE" for a long run *)
(* of words that are not in the claim.                                     *)

ContainmentConfidence == 95   \* return True, 0.95, excerpt
ProximityConfidence == 85     \* return True, 0.85, excerpt
MinKeyWords == 3              \* len(claim_words) >= 3
ProximityWindow == 100        \* window: int = 100
SemanticThreshold == 75       \* self.semantic_threshold = 0.75
SemanticAccept == 85          \* semantic_result[1] > 0.85
NliGate == 65                 \* semantic_result[1] > 0.65
NliThreshold == 70            \* verified = best_confidence > 0.7
FallbackGate == 50            \* semantic_result[1] > 0.5

MaxSourceLen == 4             \* most tokens of a source text

\* str.lower(), token by token
Lower(token) ==
    CASE token = "Alpha" -> "alpha"
      [] token = "Beta"  -> "beta"
      [] OTHER           -> token

LowerText(text) == [i \in 1..Len(text) |-> Lower(text[i])]

RECURSIVE LStrip(_)
LStrip(text) ==
    IF text # <<>> /\ Head(text) = "SP" THEN LStrip(Tail(text)) ELSE text

RECURSIVE RStrip(_)
RStrip(text) ==
    IF text # <<>> /\ text[Len(text)] = "SP"
    THEN RStrip(SubSeq(text, 1, Len(text) - 1))
    ELSE text

\* str.strip()
Strip(text) == RStrip(LStrip(text))

\* needle in haystack
Contains(needle, haystack) ==
    \E k \in 0..(Len(haystack) - Len(needle)) :
        SubSeq(haystack, k + 1, k + Len(needle)) = needle

\* the characters a token takes, the separator after it included
Width(token) ==
    CASE token = "SP"      -> 1
      [] token = "the"     -> 4
      [] token = "beta"    -> 5
      [] token = "PASSAGE" -> 400
      [] OTHER             -> 6

\* the character index at which the i-th token starts
RECURSIVE Offset(_, _)
Offset(text, i) ==
    IF i <= 1 THEN 0 ELSE Offset(text, i - 1) + Width(text[i - 1])

\* str.find(word): the index of the first occurrence, -1 when there is none
Find(word, text) ==
    IF \E i \in 1..Len(text) : text[i] = word
    THEN Offset(text, CHOOSE i \in 1..Len(text) :
                          /\ text[i] = word
                          /\ \A j \in 1..(i - 1) : text[j] # word)
    ELSE -1

stop_words == {"the"}

\* a token re.findall(r'\b[a-zA-Z]{3,}\b') yields and stop_words does not hold
IsKeyWord(token) == token \notin stop_words \cup {"SP"}

_extract_key_words(text) == SelectSeq(LowerText(text), IsKeyWord)

Found(idx) == idx # -1

Ascending(a, b) == a < b

_check_proximity(words, text) ==
    LET text_lower == LowerText(text)
        found == SelectSeq([i \in 1..Len(words) |-> Find(words[i], text_lower)],
                           Found)
        word_positions == SortSeq(found, Ascending)
    IN  IF 10 * Len(word_positions) < 7 * Len(words)
        THEN FALSE
        ELSE \E i \in 0..(Len(word_positions) - Len(words)) :
                 word_positions[i + Len(words)] - word_positions[i + 1]
                     <= ProximityWindow * Len(words)

\* what a tier returns; the excerpt is None unless Excerpt sets it
TierResult(verified, confidence) ==
    [verified |-> verified, confidence |-> confidence, excerpt |-> "None"]

Excerpt(result, text) == [result EXCEPT !.excerpt = text]

\* _verify_exact comparing the claim in the case it is written in
\* (sensitivity of C10_ExactShortCircuit)
_verify_exact_case_sensitive(claim, source) ==
    LET claim_words == _extract_key_words(claim)
    IN  IF Contains(Strip(claim), LowerText(source))
        THEN Excerpt(TierResult(TRUE, ContainmentConfidence), "context")
        ELSE IF /\ Len(claim_words) >= MinKeyWords
                /\ _check_proximity(claim_words, source)
        THEN Excerpt(TierResult(TRUE, ProximityConfidence), "best window")
        ELSE TierResult(FALSE, 0)

_verify_exact(claim, source) ==
    LET claim_lower == Strip(LowerText(claim))
        source_lower == LowerText(source)
        claim_words == _extract_key_words(claim)
    IN  IF Contains(claim_lower, source_lower)
        THEN Excerpt(TierResult(TRUE, ContainmentConfidence), "context")
        ELSE IF /\ Len(claim_words) >= MinKeyWords
                /\ _check_proximity(claim_words, source)
        THEN Excerpt(TierResult(TRUE, ProximityConfidence), "best window")
        ELSE TierResult(FALSE, 0)

\* _verify_semantic, the best chunk having the cosine similarity given
_verify_semantic(best_similarity) ==
    Excerpt(TierResult(best_similarity > SemanticThreshold, best_similarity),
            "best chunk")

\* _verify_nli, the best entailment score being the one given (0 when the model
\* cannot be loaded or no chunk is entailed)
_verify_nli(best_confidence) ==
    Excerpt(TierResult(best_confidence > NliThreshold, best_confidence),
            IF best_confidence > 0 THEN "entailed chunk" ELSE "None")

VerificationResult(verified, method, confidence) ==
    [verified |-> verified, method |-> method, confidence |-> confidence,
     excerpt |-> "None"]

NoVerification == VerificationResult(FALSE, "pending", 0)

\* (sensitivity of C30_Results): the semantic result whatever its similarity
BestAttempt_ungated(semantic) ==
    Excerpt(VerificationResult(FALSE, "semantic", semantic.confidence),
            semantic.excerpt)

\* verify_claim, "Not verified - return best attempt"
BestAttempt(semantic) ==
    IF semantic.confidence > FallbackGate
    THEN Excerpt(VerificationResult(FALSE, "semantic", semantic.confidence),
                 semantic.excerpt)
    ELSE VerificationResult(FALSE, "none", 0)

\* the claims and sources verify_claim is run on
VerifyClaims ==
    {<<>>,
     <<"the">>,
     <<"Alpha", "beta">>,
     <<"Alpha", "beta", "gamma">>,
     <<"SP", "Alpha", "beta", "gamma", "SP">>,
     <<"Alpha", "the", "beta", "gamma">>,
     <<"Alpha", "beta", "gamma", "delta">>}

SourceTokens == {"alpha", "Beta", "gamma", "PASSAGE"}

SourceTexts == UNION {[1..n -> SourceTokens] : n \in 0..MaxSourceLen}

\* cosine similarities of the best chunk, and entailment scores
Similarities == {40, 60, 70, 80, 90}

NliScores == {0, 60, 90}

VerifierIdle ==
    /\ verify_pc = "idle"
    /\ claim_text = <<>>
    /\ source_text = <<>>
    /\ use_nli = FALSE
    /\ semantic_result = TierResult(FALSE, 0)
    /\ invoked = {}
    /\ verification = NoVerification

VerifierInit ==
    /\ verify_pc = "verify_claim"
    /\ claim_text \in VerifyClaims
    /\ source_text \in SourceTexts
    /\ use_nli \in BOOLEAN
    /\ semantic_result = TierResult(FALSE, 0)
    /\ invoked = {}
    /\ verification = NoVerification

Return(r) == verification' = r /\ verify_pc' = "returned"

\* verify_claim: `if not source.text`
verify_claim_no_text ==
    /\ verify_pc = "verify_claim"
    /\ source_text = <<>>
    /\ Return(VerificationResult(FALSE, "none", 0))
    /\ UNCHANGED <<claim_text, source_text, use_nli, semantic_result, invoked,
                   sessionVars, orchestratorVars, componentVars>>

\* verify_claim, layer 1
exact_tier ==
    /\ verify_pc = "verify_claim"
    /\ source_text # <<>>
    /\ invoked' = invoked \cup {"exact"}
    /\ LET exact_result == _verify_exact(claim_text, source_text)
       IN  IF exact_result.verified
           THEN Return(Excerpt(VerificationResult(TRUE, "exact",
                                                  exact_result.confidence),
                               exact_result.excerpt))
           ELSE verify_pc' = "_verify_semantic" /\ UNCHANGED verification
    /\ UNCHANGED <<claim_text, source_text, use_nli, semantic_result,
                   sessionVars, orchestratorVars, componentVars>>

\* verify_claim, layer 2, and the fall-through when layer 3 is not tried
semantic_tier ==
    /\ verify_pc = "_verify_semantic"
    /\ invoked' = invoked \cup {"semantic"}
    /\ \E best_similarity \in Similarities :
          LET r == _verify_semantic(best_similarity)
          IN  /\ semantic_result' = r
              /\ IF r.verified /\ r.confidence > SemanticAccept
                 THEN Return(Excerpt(VerificationResult(TRUE, "semantic",
                                                        r.confidence),
                                     r.excerpt))
                 ELSE IF use_nli /\ r.confidence > NliGate
                 THEN verify_pc' = "_verify_nli" /\ UNCHANGED verification
                 ELSE Return(BestAttempt(r))
    /\ UNCHANGED <<claim_text, source_text, use_nli, sessionVars,
                   orchestratorVars, componentVars>>

\* verify_claim, layer 3, and the fall-through after it
nli_tier ==
    /\ verify_pc = "_verify_nli"
    /\ invoked' = invoked \cup {"nli"}
    /\ \E best_confidence \in NliScores :
          LET nli_result == _verify_nli(best_confidence)
          IN  IF nli_result.verified
              THEN Return(Excerpt(VerificationResult(TRUE, "nli",
                                                     nli_result.confidence),
                                  nli_result.excerpt))
              ELSE Return(BestAttempt(semantic_result))
    /\ UNCHANGED <<claim_text, source_text, use_nli, semantic_result,
                   sessionVars, orchestratorVars, componentVars>>

-----------------------------------------------------------------------------
(* SourceCurator (core/curator.py) *)

similarity_threshold == 85

min_credibility == 30

min_relevance == 50

DefaultCredibility == 50

DepthWords == 2000

\* a CrawledContent as the curator reads it: domain stands for what
\* _score_domain finds in the URL's host, source_type for what
\* _detect_source_type finds, relevance for the cosine similarity of the
\* page's text to the query
CrawledContent(success, content_hash, domain, source_type, cites, methods, words, relevance) ==
    [success |-> success, content_hash |-> content_hash, domain |-> domain,
     source_type |-> source_type, has_citations |-> cites,
     has_methodology |-> methods, word_count |-> words,
     relevance |-> relevance]

\* what the crawler returns for a fetch that failed
FailedContent == CrawledContent(FALSE, "", "default", "webpage", FALSE, FALSE, 0, 0)

NoFactors == [name \in {} |-> 0]

\* (sensitivity of C33_LaterRemoved): the Source built with its score
_convert_to_source_scored(content, k) ==
    [id |-> k, content_hash |-> content.content_hash,
     domain |-> content.domain, source_type |-> content.source_type,
     has_citations |-> content.has_citations,
     has_methodology |-> content.has_methodology,
     word_count |-> content.word_count, relevance |-> content.relevance,
     credibility_score |-> IF content.domain = "top" THEN 100 ELSE 10,
     credibility_factors |-> NoFactors]

\* the Source built from the page at position k of the input
_convert_to_source(content, k) ==
    [id |-> k, content_hash |-> content.content_hash,
     domain |-> content.domain, source_type |-> content.source_type,
     has_citations |-> content.has_citations,
     has_methodology |-> content.has_methodology,
     word_count |-> content.word_count, relevance |-> content.relevance,
     credibility_score |-> DefaultCredibility,
     credibility_factors |-> NoFactors]

RECURSIVE Successful(_, _)
\* [_convert_to_source(c) for c in crawled if c.success], from position k on
Successful(contents, k) ==
    IF k > Len(contents) THEN <<>>
    ELSE IF contents[k].success
         THEN <<_convert_to_source(contents[k], k)>> \o Successful(contents, k + 1)
         ELSE Successful(contents, k + 1)

RECURSIVE Without(_, _, _)
\* the list without the positions in to_remove, from position k on
Without(list, to_remove, k) ==
    IF k > Len(list) THEN <<>>
    ELSE IF k \in to_remove
         THEN Without(list, to_remove, k + 1)
         ELSE <<list[k]>> \o Without(list, to_remove, k + 1)

\* (sensitivity of C11_OnePerHash)
_deduplicate_exact_keep_all(list) == [unique |-> list, duplicates |-> 0]

\* keeps the first source of every content hash
_deduplicate_exact(list) ==
    LET seen(k) == \E earlier \in 1..(k - 1) :
                       list[earlier].content_hash = list[k].content_hash
        repeated == {k \in 1..Len(list) : seen(k)}
    IN  [unique |-> Without(list, repeated, 1),
         duplicates |-> Cardinality(repeated)]

\* the entry of the similarity matrix for two sources
Similarity(sim, a, b) == sim[{a.id, b.id}]

RECURSIVE InnerLoop_first_match(_, _, _, _, _)
InnerLoop_first_match(list, sim, i, j, to_remove) ==
    IF j > Len(list) THEN to_remove
    ELSE IF j \in to_remove
         THEN InnerLoop_first_match(list, sim, i, j + 1, to_remove)
         ELSE IF Similarity(sim, list[i], list[j]) > similarity_threshold
              THEN IF list[i].credibility_score >= list[j].credibility_score
                   THEN to_remove \cup {j}
                   ELSE to_remove \cup {i}
              ELSE InnerLoop_first_match(list, sim, i, j + 1, to_remove)

RECURSIVE InnerLoop(_, _, _, _, _)
\* the loop over j of _deduplicate_semantic: to_remove after it
InnerLoop(list, sim, i, j, to_remove) ==
    IF j > Len(list) THEN to_remove
    ELSE IF j \in to_remove
         THEN InnerLoop(list, sim, i, j + 1, to_remove)
         ELSE IF Similarity(sim, list[i], list[j]) > similarity_threshold
              THEN IF list[i].credibility_score >= list[j].credibility_score
                   THEN InnerLoop(list, sim, i, j + 1, to_remove \cup {j})
                   ELSE to_remove \cup {i}
              ELSE InnerLoop(list, sim, i, j + 1, to_remove)

RECURSIVE OuterLoop_first_match(_, _, _, _)
OuterLoop_first_match(list, sim, i, to_remove) ==
    IF i > Len(list) THEN to_remove
    ELSE IF i \in to_remove
         THEN OuterLoop_first_match(list, sim, i + 1, to_remove)
         ELSE OuterLoop_first_match(list, sim, i + 1,
                  InnerLoop_first_match(list, sim, i, i + 1, to_remove))

RECURSIVE OuterLoop(_, _, _, _)
\* the loop over i of _deduplicate_semantic: to_remove after it
OuterLoop(list, sim, i, to_remove) ==
    IF i > Len(list) THEN to_remove
    ELSE IF i \in to_remove
         THEN OuterLoop(list, sim, i + 1, to_remove)
         ELSE OuterLoop(list, sim, i + 1,
                        InnerLoop(list, sim, i, i + 1, to_remove))

\* (sensitivity of C12_NoSimilarPair): the scan of a source stops at its
\* first similar partner
_deduplicate_semantic_first_match(list, sim) ==
    IF Len(list) <= 1 THEN [unique |-> list, duplicates |-> 0]
    ELSE LET to_remove == OuterLoop_first_match(list, sim, 1, {})
         IN  [unique |-> Without(list, to_remove, 1),
              duplicates |-> Cardinality(to_remove)]

_deduplicate_semantic(list, sim) ==
    IF Len(list) <= 1 THEN [unique |-> list, duplicates |-> 0]
    ELSE LET to_remove == OuterLoop(list, sim, 1, {})
         IN  [unique |-> Without(list, to_remove, 1),
              duplicates |-> Cardinality(to_remove)]

_score_domain(domain) ==
    CASE domain = "top" -> 40
      [] domain = "trusted" -> 35
      [] domain = "low" -> 10
      [] OTHER -> 25

RECURSIVE SumFactors(_)
\* sum(factors.values())
SumFactors(factors) ==
    IF DOMAIN factors = {} THEN 0
    ELSE LET name == CHOOSE n \in DOMAIN factors : TRUE
         IN  factors[name]
             + SumFactors([n \in DOMAIN factors \ {name} |-> factors[n]])

Clip(total) == IF total < 100 THEN total ELSE 100

_calculate_credibility(source) ==
    LET content_score == (IF source.has_citations THEN 15 ELSE 0)
                         + (IF source.has_methodology THEN 15 ELSE 0)
        words == IF source.word_count < DepthWords
                 THEN source.word_count ELSE DepthWords
        type_score == CASE source.source_type = "academic" -> 10
                        [] source.source_type = "news" -> 5
                        [] source.source_type = "webpage" -> 2
                        [] OTHER -> 0
        factors == [name \in {"domain_authority", "content_signals",
                              "content_depth", "source_type"} |->
                       CASE name = "domain_authority" ->
                                _score_domain(source.domain)
                         [] name = "content_signals" -> content_score
                         [] name = "content_depth" ->
                                (words * 20) \div DepthWords
                         [] OTHER -> type_score]
    IN  [source EXCEPT !.credibility_score = Clip(SumFactors(factors)),
                       !.credibility_factors = factors]

\* source.credibility_factors['relevance'] = float(sim)
_calculate_relevance(source) ==
    [source EXCEPT !.credibility_factors =
        [name \in DOMAIN source.credibility_factors \cup {"relevance"} |->
            IF name = "relevance" THEN source.relevance
            ELSE source.credibility_factors[name]]]

\* credibility_factors.get('relevance', 0)
Relevance(source) ==
    IF "relevance" \in DOMAIN source.credibility_factors
    THEN source.credibility_factors["relevance"] ELSE 0

\* the sort key of curate, times ten
RankScore(source) == source.credibility_score * 6 + Relevance(source) * 4

\* (sensitivity of C34_Output): the list left in the order it has
Ranked_unsorted(list) == list

RECURSIVE Ranked(_)
\* filtered.sort(key=..., reverse=True): a stable sort, highest key first
Ranked(list) ==
    IF list = <<>> THEN <<>>
    ELSE LET n == Len(list)
             front == Ranked(SubSeq(list, 1, n - 1))
             ahead == {k \in 1..Len(front) :
                          RankScore(front[k]) >= RankScore(list[n])}
         IN  SubSeq(front, 1, Cardinality(ahead)) \o <<list[n]>>
             \o SubSeq(front, Cardinality(ahead) + 1, Len(front))

CurationResult(kept, duplicates_removed, low_quality_removed, total_input) ==
    [sources |-> kept, duplicates_removed |-> duplicates_removed,
     low_quality_removed |-> low_quality_removed, total_input |-> total_input]

\* the local list `sources` of curate when step 3 starts
Candidates(contents) == _deduplicate_exact(Successful(contents, 1)).unique

\* the local list `sources` of curate after step 3
Deduplicated(contents, sim) ==
    _deduplicate_semantic(Candidates(contents), sim).unique

\* curate(crawled, query, max_sources=limit), with the default thresholds
curate(contents, sim, limit) ==
    LET converted == Successful(contents, 1)
        exact == _deduplicate_exact(converted)
        semantic == _deduplicate_semantic(exact.unique, sim)
        scored == [k \in 1..Len(semantic.unique) |->
                      _calculate_relevance(
                          _calculate_credibility(semantic.unique[k]))]
        passes(s) == /\ s.credibility_score >= min_credibility
                     /\ Relevance(s) >= min_relevance
        filtered == SelectSeq(scored, passes)
        ranked == Ranked(filtered)
        final == SubSeq(ranked, 1,
                        IF limit < Len(ranked) THEN limit ELSE Len(ranked))
    IN  CurationResult(final, exact.duplicates + semantic.duplicates,
                       Len(scored) - Len(filtered), Len(contents))

NoCuration == CurationResult(<<>>, 0, 0, 0)

\* the pages the callers pass
CrawledPages ==
    { CrawledContent(TRUE, "H1", "top", "academic", TRUE, TRUE, 2500, 80),
      CrawledContent(TRUE, "H1", "default", "webpage", TRUE, TRUE, 2500, 80),
      CrawledContent(TRUE, "H2", "low", "blog", FALSE, FALSE, 100, 80),
      CrawledContent(TRUE, "H3", "trusted", "news", TRUE, FALSE, 2000, 40),
      CrawledContent(TRUE, "H4", "default", "webpage", FALSE, TRUE, 1000, 70),
      FailedContent }

CrawledLists == UNION {[1..n -> CrawledPages] : n \in {0, 1, 2, 3}}

Pairs(n) == {{a, b} : a, b \in 1..n} \ {{a} : a \in 1..n}

Cosines == {80, 85, 90}

CredibilityScores == {30, 50, 70}

SourceLimits == {1, 50}

CuratorIdle ==
    /\ curate_pc = "idle"
    /\ crawled = <<>>
    /\ similarity = <<>>
    /\ max_sources = 50
    /\ curation = NoCuration
    /\ retained = <<>>

CuratorInit ==
    /\ curate_pc = "ready"
    /\ crawled \in CrawledLists
    /\ similarity \in [Pairs(Len(crawled)) -> Cosines]
    /\ max_sources \in SourceLimits
    /\ curation = NoCuration
    /\ retained = <<>>

\* result = curator.curate(crawled, query, max_sources)
curate_call ==
    /\ curate_pc = "ready"
    /\ curation' = curate(crawled, similarity, max_sources)
    /\ retained' = Deduplicated(crawled, similarity)
    /\ curate_pc' = "curated"
    /\ UNCHANGED <<crawled, similarity, max_sources, notCurator>>

\* a direct call of _deduplicate_semantic on sources that carry any scores
_deduplicate_semantic_call ==
    /\ curate_pc = "ready"
    /\ \E scores \in [1..Len(crawled) -> CredibilityScores] :
          LET given == [k \in 1..Len(crawled) |->
                           [_convert_to_source(crawled[k], k)
                               EXCEPT !.credibility_score = scores[k]]]
          IN  retained' = _deduplicate_semantic(given, similarity).unique
    /\ curate_pc' = "deduplicated"
    /\ UNCHANGED <<crawled, similarity, max_sources, curation, notCurator>>

-----------------------------------------------------------------------------
(* KnowledgeGraph (core/knowledge_graph.py), call by call *)

graph_similarity_threshold == 75

\* f"claim:{id}", f"entity:{label}", f"source:{id}"
NodeId(prefix, key) == <<prefix, key>>

\* (sensitivity of C20_Statistics): the label as it is written
NormalizedLabel_verbatim(entity) == entity

\* entity.lower().replace(' ', '_'), on a label given token by token
NormalizedLabel(entity) ==
    [k \in 1..Len(entity) |->
        IF Lower(entity[k]) = "SP" THEN "_" ELSE Lower(entity[k])]

EmptyGraph == [nodes |-> [n \in {} |-> 0], edges |-> {}]

\* G.add_node(id, **attributes): an existing node gets the new attributes
add_node(graph, id, attributes) ==
    [graph EXCEPT !.nodes =
        [n \in DOMAIN graph.nodes \cup {id} |->
            IF n = id THEN attributes ELSE graph.nodes[n]]]

\* (sensitivity of C14_Contradictions): a second edge beside the first
add_edge_parallel(graph, from, to, relation) ==
    [graph EXCEPT !.edges = @ \cup {GraphEdge(from, to, relation)}]

\* G.add_edge(from, to, relation=...) of a DiGraph: one edge per ordered
\* pair, an existing edge gets the new attributes
add_edge(graph, from, to, relation) ==
    [graph EXCEPT !.edges =
        {e \in @ : ~(e.from = from /\ e.to = to)}
            \cup {GraphEdge(from, to, relation)}]

NodeAttributes(type, mentions) == [type |-> type, mentions |-> mentions]

RECURSIVE AddEntities(_, _, _, _)
\* the loop over claim.entities of add_claim, from position k on
AddEntities(graph, node_id, entities, k) ==
    IF k > Len(entities) THEN graph
    ELSE LET entity_id == NodeId("entity", NormalizedLabel(entities[k]))
             counted ==
                 IF entity_id \notin DOMAIN graph.nodes
                 THEN add_node(graph, entity_id, NodeAttributes("entity", 1))
                 ELSE add_node(graph, entity_id,
                          NodeAttributes("entity",
                              graph.nodes[entity_id].mentions + 1))
         IN  AddEntities(add_edge(counted, node_id, entity_id, "ABOUT"),
                         node_id, entities, k + 1)

NoSource == "None"

\* the source node and the FROM edge of add_claim
AddSource(graph, node_id, source) ==
    IF source = NoSource THEN graph
    ELSE LET source_id == NodeId("source", source)
             present == IF source_id \in DOMAIN graph.nodes THEN graph
                        ELSE add_node(graph, source_id,
                                      NodeAttributes("source", 0))
         IN  add_edge(present, node_id, source_id, "FROM")

RECURSIVE _link_related_claims_reversed(_, _, _, _)
\* (sensitivity of C38_LaterToEarlier): the edges drawn from the stored claim
\* to the new one
_link_related_claims_reversed(graph, new_claim, existing, similarities) ==
    IF existing = {} THEN graph
    ELSE LET existing_id == CHOOSE id \in existing : TRUE
             linked ==
                 IF similarities[existing_id] > graph_similarity_threshold
                 THEN add_edge(graph, NodeId("claim", existing_id),
                               NodeId("claim", new_claim.id),
                               _determine_relation(new_claim.text))
                 ELSE graph
         IN  _link_related_claims_reversed(linked, new_claim,
                                           existing \ {existing_id},
                                           similarities)

RECURSIVE _link_related_claims(_, _, _, _)
\* one edge from the new claim to every other stored claim whose similarity
\* to it exceeds the threshold
_link_related_claims(graph, new_claim, existing, similarities) ==
    IF existing = {} THEN graph
    ELSE LET existing_id == CHOOSE id \in existing : TRUE
             linked ==
                 IF similarities[existing_id] > graph_similarity_threshold
                 THEN add_edge(graph, NodeId("claim", new_claim.id),
                               NodeId("claim", existing_id),
                               _determine_relation(new_claim.text))
                 ELSE graph
         IN  _link_related_claims(linked, new_claim,
                                  existing \ {existing_id}, similarities)

\* add_claim(claim, source); embeddings are the claim ids stored so far
add_claim(graph, embeddings, new_claim, source, similarities) ==
    LET node_id == NodeId("claim", new_claim.id)
        with_claim == add_node(graph, node_id, NodeAttributes("claim", 0))
        with_entities == AddEntities(with_claim, node_id, new_claim.entities, 1)
        with_source == AddSource(with_entities, node_id, source)
    IN  _link_related_claims(with_source, new_claim,
                             embeddings \ {new_claim.id},
                             similarities)

\* add_claim_relation(relation)
add_claim_relation(graph, source_claim_id, target_claim_id, relation_type) ==
    LET source_node == NodeId("claim", source_claim_id)
        target_node == NodeId("claim", target_claim_id)
    IN  IF source_node \in DOMAIN graph.nodes /\ target_node \in DOMAIN graph.nodes
        THEN add_edge(graph, source_node, target_node, relation_type)
        ELSE graph

\* the (claim1_id, claim2_id) of the triples find_contradictions returns
ContradictionPairs(graph) ==
    {<<e.from[2], e.to[2]>> : e \in find_contradictions(graph.edges)}

\* the node counts of get_statistics
get_statistics(graph) ==
    LET count(type) ==
            Cardinality({n \in DOMAIN graph.nodes : graph.nodes[n].type = type})
    IN  [total_nodes |-> Cardinality(DOMAIN graph.nodes),
         total_edges |-> Cardinality(graph.edges),
         claim_nodes |-> count("claim"),
         entity_nodes |-> count("entity"),
         source_nodes |-> count("source")]

MaxCalls == 3

ClaimIds == {"c1", "c2"}

SourceIds == {"s1", "s2"}

EntityLists ==
    {<<>>,
     << <<"Alpha", "SP", "Beta">> >>,
     << <<"alpha", "_", "beta">>, <<"Alpha">>, <<"alpha">> >>}

GraphTexts == {"plain", "however"}

RelationTypes == {"SUPPORTS", "CONTRADICTS", "RELATED_TO"}

ClaimSimilarities == {70, 80}

\* the arguments of an add_claim call that matter to the claim-to-claim edges
AddArguments(id, text, similarities) ==
    [id |-> id, text |-> text, similarities |-> similarities]

NoAdd == AddArguments("None", "plain", <<>>)

GraphInit ==
    /\ G = EmptyGraph
    /\ claim_embeddings = {}
    /\ added_claims = {}
    /\ supplied_sources = {}
    /\ entity_labels = {}
    /\ latest = <<>>
    /\ graph_calls = 0
    /\ last_add = NoAdd
    /\ add_order = <<>>

\* knowledge_graph.add_claim(claim, source)
add_claim_call ==
    /\ graph_calls < MaxCalls
    /\ \E id \in ClaimIds, text \in GraphTexts, entities \in EntityLists,
          source \in SourceIds \cup {NoSource},
          similarities \in [claim_embeddings -> ClaimSimilarities] :
          LET new_claim == [id |-> id, text |-> text, entities |-> entities]
              linked == {e \in claim_embeddings \ {id} :
                            similarities[e] > graph_similarity_threshold}
              about == {NodeId("entity", NormalizedLabel(entities[k])) :
                            k \in 1..Len(entities)}
              from == IF source = NoSource THEN {}
                      ELSE {NodeId("source", source)}
              targets == {NodeId("claim", e) : e \in linked} \cup about \cup from
              pairs == {<<NodeId("claim", id), t>> : t \in targets}
          IN  /\ G' = add_claim(G, claim_embeddings, new_claim, source,
                                similarities)
              /\ claim_embeddings' = claim_embeddings \cup {id}
              /\ added_claims' = added_claims \cup {id}
              /\ supplied_sources' = supplied_sources \cup
                     (IF source = NoSource THEN {} ELSE {source})
              /\ entity_labels' = entity_labels \cup
                     {entities[k] : k \in 1..Len(entities)}
              /\ latest' = [p \in DOMAIN latest \cup pairs |->
                     IF p \in pairs
                     THEN IF p[2][1] = "claim" THEN _determine_relation(text)
                          ELSE IF p[2][1] = "entity" THEN "ABOUT" ELSE "FROM"
                     ELSE latest[p]]
    /\ graph_calls' = graph_calls + 1
    /\ UNCHANGED <<last_add, add_order, notGraph>>

\* the claims the session adds one at a time, each under an id of its own
LinkIds == {"c1", "c2", "c3"}

\* knowledge_graph.add_claim(claim, source) of a claim not added before
add_new_claim ==
    \E id \in LinkIds \ added_claims, text \in ClaimTexts,
       source \in {NoSource, "s1"},
       similarities \in [claim_embeddings -> ClaimSimilarities] :
       LET new_claim == [id |-> id, text |-> text, entities |-> <<>>]
           linked == {e \in claim_embeddings :
                         similarities[e] > graph_similarity_threshold}
           from == IF source = NoSource THEN {}
                   ELSE {NodeId("source", source)}
           targets == {NodeId("claim", e) : e \in linked} \cup from
           pairs == {<<NodeId("claim", id), t>> : t \in targets}
       IN  /\ G' = add_claim(G, claim_embeddings, new_claim, source,
                             similarities)
           /\ claim_embeddings' = claim_embeddings \cup {id}
           /\ added_claims' = added_claims \cup {id}
           /\ supplied_sources' = supplied_sources \cup
                  (IF source = NoSource THEN {} ELSE {source})
           /\ latest' = [p \in DOMAIN latest \cup pairs |->
                  IF p \in pairs
                  THEN IF p[2][1] = "claim" THEN _determine_relation(text)
                       ELSE "FROM"
                  ELSE latest[p]]
           /\ last_add' = AddArguments(id, text, similarities)
           /\ add_order' = Append(add_order, id)
           /\ graph_calls' = graph_calls + 1
           /\ UNCHANGED <<entity_labels, notGraph>>

\* knowledge_graph.add_claim_relation(relation)
add_claim_relation_call ==
    /\ graph_calls < MaxCalls
    /\ \E source_claim_id \in ClaimIds, target_claim_id \in ClaimIds,
          relation_type \in RelationTypes :
          LET pair == <<NodeId("claim", source_claim_id),
                        NodeId("claim", target_claim_id)>>
              stored == {source_claim_id, target_claim_id} \subseteq added_claims
          IN  /\ G' = add_claim_relation(G, source_claim_id, target_claim_id,
                                         relation_type)
              /\ latest' = IF stored
                           THEN [p \in DOMAIN latest \cup {pair} |->
                                    IF p = pair THEN relation_type ELSE latest[p]]
                           ELSE latest
    /\ graph_calls' = graph_calls + 1
    /\ UNCHANGED <<claim_embeddings, added_claims, supplied_sources,
                   entity_labels, last_add, add_order, notGraph>>

-----------------------------------------------------------------------------
(* WebCrawler (core/crawler.py) and the use the session makes of it *)

MaxRetries429 == 3

MaxRetries503 == 2

\* a URL handed to crawl_multiple: domain tells whether its host is one of
\* STRICT_DOMAINS or cannot be parsed, content is the page behind it
Url(domain, content) == [domain |-> domain, content |-> content]

\* what a fetch returned: the CrawledContent fields the callers read
FetchResult(success, error, method) ==
    [success |-> success, error |-> error, method |-> method]

NoResultYet == FetchResult(FALSE, "", "pending")

\* browser_fetches is history: the runs of _crawl_with_playwright for the URL
Fetch(at, retry_count, got_403, result) ==
    [at |-> at, retry_count |-> retry_count, got_403 |-> got_403,
     result |-> result, browser_fetches |-> 0]

\* error=f"HTTP {status_code}"
HttpError(outcome) ==
    CASE outcome = "403" -> "HTTP 403"
      [] outcome = "404" -> "HTTP 404"
      [] outcome = "429" -> "HTTP 429"
      [] outcome = "503" -> "HTTP 503"

\* wait_time = (2 ** retry_count) + random.uniform(1, 3): the part that grows
Backoff(retry_count) == 2 ^ retry_count

\* the answers of the lightweight client and of the browser
HttpxOutcomes == {"200", "403", "404", "429", "503", "timeout", "error"}

PlaywrightOutcomes == {"ok", "403", "import_error", "error"}

\* (sensitivity of C15_Concurrency): entering without a free slot
Acquirable_always(value) == TRUE

\* asyncio.Semaphore.acquire returns at once only while the value is positive
Acquirable(value) == value > 0

\* (sensitivity of C18_Fallback): a 403 is reported without the browser
_crawl_with_httpx_no_fallback(fetch, outcome, fallback) ==
    IF outcome = "200"
    THEN [fetch EXCEPT !.at = "done", !.result = FetchResult(TRUE, "", "httpx")]
    ELSE [fetch EXCEPT !.at = "done", !.got_403 = (outcome = "403"),
                       !.result = FetchResult(FALSE, outcome, "None")]

\* (sensitivity of C28_BoundedRetries): a 503 is retried as often as a 429
_crawl_with_httpx_one_limit(fetch, outcome, fallback) ==
    CASE outcome = "200" ->
           [fetch EXCEPT !.at = "done",
                         !.result = FetchResult(TRUE, "", "httpx")]
      [] outcome = "403" /\ fallback ->
           [fetch EXCEPT !.at = "_crawl_with_playwright", !.got_403 = TRUE]
      [] outcome = "403" /\ ~fallback ->
           [fetch EXCEPT !.at = "done", !.got_403 = TRUE,
                         !.result = FetchResult(FALSE, HttpError(outcome), "None")]
      [] outcome = "429" /\ fetch.retry_count < MaxRetries429 ->
           [fetch EXCEPT !.retry_count = @ + 1]
      [] outcome = "503" /\ fetch.retry_count < MaxRetries429 ->
           [fetch EXCEPT !.retry_count = @ + 1]
      [] outcome = "timeout" /\ fallback ->
           [fetch EXCEPT !.at = "_crawl_with_playwright"]
      [] outcome = "timeout" /\ ~fallback ->
           [fetch EXCEPT !.at = "done",
                         !.result = FetchResult(FALSE, "Timeout", "None")]
      [] outcome = "error" ->
           [fetch EXCEPT !.at = "done",
                         !.result = FetchResult(FALSE, "error", "None")]
      [] OTHER ->
           [fetch EXCEPT !.at = "done",
                         !.result = FetchResult(FALSE, HttpError(outcome), "None")]

\* one pass through _crawl_with_httpx with the given answer; fallback is
\* self.retry_with_playwright
_crawl_with_httpx(fetch, outcome, fallback) ==
    CASE outcome = "200" ->
           [fetch EXCEPT !.at = "done",
                         !.result = FetchResult(TRUE, "", "httpx")]
      [] outcome = "403" /\ fallback ->
           [fetch EXCEPT !.at = "_crawl_with_playwright", !.got_403 = TRUE]
      [] outcome = "403" /\ ~fallback ->
           [fetch EXCEPT !.at = "done", !.got_403 = TRUE,
                         !.result = FetchResult(FALSE, HttpError(outcome), "None")]
      [] outcome = "429" /\ fetch.retry_count < MaxRetries429 ->
           [fetch EXCEPT !.retry_count = @ + 1]
      [] outcome = "503" /\ fetch.retry_count < MaxRetries503 ->
           [fetch EXCEPT !.retry_count = @ + 1]
      [] outcome = "timeout" /\ fallback ->
           [fetch EXCEPT !.at = "_crawl_with_playwright"]
      [] outcome = "timeout" /\ ~fallback ->
           [fetch EXCEPT !.at = "done",
                         !.result = FetchResult(FALSE, "Timeout", "None")]
      [] outcome = "error" ->
           [fetch EXCEPT !.at = "done",
                         !.result = FetchResult(FALSE, "error", "None")]
      [] OTHER ->
           [fetch EXCEPT !.at = "done",
                         !.result = FetchResult(FALSE, HttpError(outcome), "None")]

\* _crawl_with_playwright with the given answer
_crawl_with_playwright(fetch, outcome) ==
    CASE outcome = "ok" ->
           [fetch EXCEPT !.at = "done",
                         !.result = FetchResult(TRUE, "", "playwright")]
      [] outcome = "403" ->
           [fetch EXCEPT !.at = "done",
                         !.result = FetchResult(FALSE, "HTTP 403 (blocked)",
                                                "playwright")]
      [] outcome = "import_error" ->
           [fetch EXCEPT !.at = "done",
                         !.result = FetchResult(FALSE, "Playwright not installed",
                                                "None")]
      [] OTHER ->
           [fetch EXCEPT !.at = "done",
                         !.result = FetchResult(FALSE, "Playwright error: error",
                                                "None")]

\* the CrawledContent a finished fetch of the URL stands for
ContentOf(url, fetch) ==
    IF fetch.result.success THEN url.content ELSE FailedContent

\* no two of these pages are similar
Dissimilar(n) == [pair \in Pairs(n) |-> 80]

UrlLists ==
    {<< Url("plain", CrawledContent(TRUE, "H1", "top", "academic", TRUE, TRUE, 2500, 80)),
        Url("plain", CrawledContent(TRUE, "H4", "default", "webpage", FALSE, TRUE, 1000, 70)) >>,
     << Url("strict", CrawledContent(TRUE, "H1", "top", "academic", TRUE, TRUE, 2500, 80)),
        Url("malformed", CrawledContent(TRUE, "H1", "default", "webpage", TRUE, TRUE, 2500, 80)),
        Url("plain", CrawledContent(TRUE, "H4", "default", "webpage", FALSE, TRUE, 1000, 70)) >>}

ConcurrencyLimits == {1, 2}

CrawlerIdle ==
    /\ crawl_pc = "idle"
    /\ urls = <<>>
    /\ max_concurrent = 1
    /\ retry_with_playwright = TRUE
    /\ semaphore = 1
    /\ fetches = <<>>
    /\ kept_content = <<>>
    /\ kept_sources = <<>>

CrawlerInit ==
    /\ crawl_pc = "crawl_multiple"
    /\ urls \in UrlLists
    /\ max_concurrent \in ConcurrencyLimits
    /\ retry_with_playwright \in BOOLEAN
    /\ semaphore = max_concurrent
    /\ fetches = [k \in 1..Len(urls) |-> Fetch("waiting", 0, FALSE, NoResultYet)]
    /\ kept_content = <<>>
    /\ kept_sources = <<>>

sessionSide == <<crawl_pc, kept_content, kept_sources>>

crawlerConfig == <<urls, max_concurrent, retry_with_playwright>>

\* crawl: `async with self.semaphore` is entered
acquire(k) ==
    /\ fetches[k].at = "waiting"
    /\ Acquirable(semaphore)
    /\ semaphore' = semaphore - 1
    /\ fetches' = [fetches EXCEPT ![k].at = "_apply_rate_limit"]
    /\ UNCHANGED <<sessionSide, crawlerConfig, notCrawler>>

\* crawl, inside the semaphore: the rate limit, then the choice of the client
_apply_rate_limit(k) ==
    /\ fetches[k].at = "_apply_rate_limit"
    /\ urls[k].domain # "malformed"
    /\ fetches' = [fetches EXCEPT ![k].at =
                      IF urls[k].domain = "strict"
                      THEN "_crawl_with_playwright" ELSE "_crawl_with_httpx"]
    /\ UNCHANGED <<semaphore, sessionSide, crawlerConfig, notCrawler>>

\* crawl, inside the semaphore: urlparse rejects the URL, the exception
\* leaves crawl and the semaphore is released
_apply_rate_limit_error(k) ==
    /\ fetches[k].at = "_apply_rate_limit"
    /\ urls[k].domain = "malformed"
    /\ fetches' = [fetches EXCEPT ![k].at = "raised"]
    /\ semaphore' = semaphore + 1
    /\ UNCHANGED <<sessionSide, crawlerConfig, notCrawler>>

\* releases the semaphore when the fetch has returned
Released(before, after) ==
    semaphore' = IF after.at = "done" /\ before.at # "done"
                 THEN semaphore + 1 ELSE semaphore

\* one request of the lightweight client and what follows from its answer
httpx_request(k) ==
    /\ fetches[k].at = "_crawl_with_httpx"
    /\ \E outcome \in HttpxOutcomes :
          LET after == _crawl_with_httpx(fetches[k], outcome, retry_with_playwright)
          IN  /\ fetches' = [fetches EXCEPT ![k] = after]
              /\ Released(fetches[k], after)
    /\ UNCHANGED <<sessionSide, crawlerConfig, notCrawler>>

\* the browser fetch
playwright_request(k) ==
    /\ fetches[k].at = "_crawl_with_playwright"
    /\ \E outcome \in PlaywrightOutcomes :
          LET after == _crawl_with_playwright(fetches[k], outcome)
          IN  /\ fetches' = [fetches EXCEPT ![k] =
                                [after EXCEPT !.browser_fetches = @ + 1]]
              /\ Released(fetches[k], after)
    /\ UNCHANGED <<sessionSide, crawlerConfig, notCrawler>>

\* asyncio.gather returns the results and _crawl keeps the successful ones
_crawl_gathered ==
    /\ crawl_pc = "crawl_multiple"
    /\ \A k \in 1..Len(urls) : fetches[k].at = "done"
    /\ LET crawled_list == [k \in 1..Len(urls) |-> ContentOf(urls[k], fetches[k])]
           succeeded(content) == content.success
       IN  kept_content' = SelectSeq(crawled_list, succeeded)
    /\ crawl_pc' = "CURATING"
    /\ UNCHANGED <<kept_sources, semaphore, fetches, crawlerConfig, notCrawler>>

\* asyncio.gather raises the first exception of a task: run() goes to its
\* except clause
_crawl_raised ==
    /\ crawl_pc = "crawl_multiple"
    /\ \E k \in 1..Len(urls) : fetches[k].at = "raised"
    /\ crawl_pc' = "ERROR"
    /\ UNCHANGED <<kept_content, kept_sources, semaphore, fetches,
                   crawlerConfig, notCrawler>>

\* _curate: self.sources = curator.curate(self.crawled_content, ...).sources
_curate_kept ==
    /\ crawl_pc = "CURATING"
    /\ kept_sources' =
           curate(kept_content, Dissimilar(Len(kept_content)), 50).sources
    /\ crawl_pc' = "EXTRACTING"
    /\ UNCHANGED <<kept_content, semaphore, fetches, crawlerConfig, notCrawler>>

-----------------------------------------------------------------------------
(* WebCrawler.crawl in time: the per-domain rate limit (core/crawler.py)   *)
(* Times are in half seconds.                                              *)

min_delay == 1                \* min_delay: float = 0.5

max_delay == 4                \* max_delay: float = 2.0

\* the last instant of the clock that is explored
MaxTime == 2

\* random.uniform(self.min_delay, self.max_delay)
Delays == min_delay..max_delay

\* the check of _apply_rate_limit: the domain was requested less than
\* min_delay ago
TooSoon(last_request_time, domain, now) ==
    /\ domain \in DOMAIN last_request_time
    /\ now - last_request_time[domain] < min_delay

\* self._last_request_time[domain] = time.time()
Stamped(last_request_time, domain, now) ==
    [d \in DOMAIN last_request_time \cup {domain} |->
        IF d = domain THEN now ELSE last_request_time[d]]

RateTask(at, wake) == [at |-> at, wake |-> wake]

\* the hosts of the URLs given to crawl_multiple
DomainLists ==
    {<<"a.org", "a.org", "a.org">>, <<"a.org", "b.org", "a.org">>}

RateIdle ==
    /\ rate_now = 0
    /\ _last_request_time = <<>>
    /\ rate_domains = <<>>
    /\ rate_limit = 1
    /\ rate_semaphore = 1
    /\ rate_tasks = <<>>
    /\ requests = {}

RateInit ==
    /\ rate_now = 0
    /\ _last_request_time = <<>>
    /\ rate_domains \in DomainLists
    /\ rate_limit \in ConcurrencyLimits
    /\ rate_semaphore = rate_limit
    /\ rate_tasks = [k \in 1..Len(rate_domains) |-> RateTask("waiting", 0)]
    /\ requests = {}

rateConfig == <<rate_domains, rate_limit>>

\* the request of task k starts, the rate limit being passed
Requested(k) ==
    /\ _last_request_time' =
           Stamped(_last_request_time, rate_domains[k], rate_now)
    /\ requests' = requests \cup
           {[task |-> k, domain |-> rate_domains[k], time |-> rate_now]}

\* crawl: `async with self.semaphore` is entered
crawl_enter(k) ==
    /\ rate_tasks[k].at = "waiting"
    /\ Acquirable(rate_semaphore)
    /\ rate_semaphore' = rate_semaphore - 1
    /\ rate_tasks' = [rate_tasks EXCEPT ![k].at = "_apply_rate_limit"]
    /\ UNCHANGED <<rate_now, _last_request_time, requests, rateConfig, notRate>>

\* _apply_rate_limit up to its first suspension point: the last request time
\* of the domain is read; the task either goes to sleep for a random delay,
\* or writes the time and goes on to its request
_apply_rate_limit_read(k) ==
    /\ rate_tasks[k].at = "_apply_rate_limit"
    /\ IF TooSoon(_last_request_time, rate_domains[k], rate_now)
       THEN /\ \E delay \in Delays :
                  rate_tasks' = [rate_tasks EXCEPT
                                    ![k] = RateTask("sleeping", rate_now + delay)]
            /\ UNCHANGED <<_last_request_time, requests>>
       ELSE /\ rate_tasks' = [rate_tasks EXCEPT ![k].at = "request"]
            /\ Requested(k)
    /\ UNCHANGED <<rate_now, rate_semaphore, rateConfig, notRate>>

\* _apply_rate_limit after asyncio.sleep(delay): the time is written
_apply_rate_limit_write(k) ==
    /\ rate_tasks[k].at = "sleeping"
    /\ rate_now >= rate_tasks[k].wake
    /\ rate_tasks' = [rate_tasks EXCEPT ![k].at = "request"]
    /\ Requested(k)
    /\ UNCHANGED <<rate_now, rate_semaphore, rateConfig, notRate>>

\* crawl: the fetch returned and the semaphore is left
crawl_leave(k) ==
    /\ rate_tasks[k].at = "request"
    /\ rate_tasks' = [rate_tasks EXCEPT ![k].at = "done"]
    /\ rate_semaphore' = rate_semaphore + 1
    /\ UNCHANGED <<rate_now, _last_request_time, requests, rateConfig, notRate>>

\* time passes
time_passes ==
    /\ rate_now < MaxTime
    /\ rate_now' = rate_now + 1
    /\ UNCHANGED <<_last_request_time, rate_semaphore, rate_tasks, requests,
                   rateConfig, notRate>>

-----------------------------------------------------------------------------
(* WebCrawler._crawl_with_httpx for one URL, with the answers it got *)

\* an answer of the lightweight client, with the retry_count it was given to
Answer(outcome, retry_count) ==
    [outcome |-> outcome, retry_count |-> retry_count]

TraceIdle ==
    /\ traced_fetch = Fetch("idle", 0, FALSE, NoResultYet)
    /\ traced_fallback = TRUE
    /\ traced_answers = <<>>

TraceInit ==
    /\ traced_fetch = Fetch("_crawl_with_httpx", 0, FALSE, NoResultYet)
    /\ traced_fallback \in BOOLEAN
    /\ traced_answers = <<>>

\* one request of the lightweight client and what follows from its answer
traced_httpx_request ==
    /\ traced_fetch.at = "_crawl_with_httpx"
    /\ \E outcome \in HttpxOutcomes :
          /\ traced_fetch' =
                 _crawl_with_httpx(traced_fetch, outcome, traced_fallback)
          /\ traced_answers' =
                 Append(traced_answers, Answer(outcome, traced_fetch.retry_count))
    /\ UNCHANGED <<traced_fallback, notTrace>>

\* the browser fetch the lightweight client handed over to
traced_playwright_request ==
    /\ traced_fetch.at = "_crawl_with_playwright"
    /\ \E outcome \in PlaywrightOutcomes :
          traced_fetch' =
              [_crawl_with_playwright(traced_fetch, outcome)
                  EXCEPT !.browser_fetches = @ + 1]
    /\ UNCHANGED <<traced_fallback, traced_answers, notTrace>>

-----------------------------------------------------------------------------
(* SearchEngine (core/search.py) *)

max_retries == 3

\* the exception classes the providers raise, and their base classes
Exceptions == {"TimeoutError", "RatelimitException", "DDGSException",
               "HTTPStatusError", "JSONDecodeError"}

IsInstance(exception, class) ==
    \/ exception = class
    \/ class = "Exception"
    \/ class = "DDGSException" /\ exception = "RatelimitException"

\* the except clauses around the DuckDuckGo call of search
DuckDuckGoHandlers == <<"TimeoutError", "DDGSException", "Exception">>

\* (sensitivity of C17_SearchReturns): no clause for unexpected errors
Handled_expected_only(exception, handlers) ==
    \E n \in 1..(Len(handlers) - 1) : IsInstance(exception, handlers[n])

\* some except clause of the try statement matches the exception
Handled(exception, handlers) ==
    \E n \in 1..Len(handlers) : IsInstance(exception, handlers[n])

\* results.extend(provider_results)
Extended(list, provider, n) == list \o [k \in 1..n |-> provider]

\* results[:max_results]
Truncated(list, limit) ==
    SubSeq(list, 1, IF limit < Len(list) THEN limit ELSE Len(list))

\* what a provider answers: a number of results, or an exception
ProviderCounts == {0, 1, 3}

SearchLimits == {1, 2}

Providers == {"openrouter", "tavily", "duckduckgo"}

SearchIdle ==
    /\ search_pc = "idle"
    /\ search_provider = "duckduckgo"
    /\ api_key = FALSE
    /\ max_results = 1
    /\ search_found = <<>>
    /\ attempt = 0
    /\ provider_calls = <<>>
    /\ returned = <<>>

SearchInit ==
    /\ search_pc = "openrouter"
    /\ search_provider \in Providers
    /\ api_key \in BOOLEAN
    /\ max_results \in SearchLimits
    /\ search_found = <<>>
    /\ attempt = 0
    /\ provider_calls = <<>>
    /\ returned = <<>>

searchConfig == <<search_provider, api_key, max_results>>

\* return results[:max_results]
SearchReturn(list) ==
    /\ returned' = Truncated(list, max_results)
    /\ search_pc' = "returned"

\* a provider block of search: skipped when the provider is not the
\* configured one, left early when enough results are there
ProviderBlock(provider, next) ==
    /\ search_pc = provider
    /\ \/ /\ ~(search_provider = provider /\ api_key)
          /\ search_pc' = next
          /\ UNCHANGED <<search_found, provider_calls, returned>>
       \/ /\ search_provider = provider /\ api_key
          /\ \E n \in ProviderCounts :
                /\ search_found' = Extended(search_found, provider, n)
                /\ IF Len(search_found') >= max_results
                   THEN SearchReturn(search_found')
                   ELSE search_pc' = next /\ UNCHANGED returned
          /\ provider_calls' = Append(provider_calls, <<provider, "ok">>)
       \/ /\ search_provider = provider /\ api_key
          /\ \E exception \in Exceptions :
                /\ IF Handled(exception, <<"Exception">>)
                   THEN search_pc' = next
                   ELSE search_pc' = "raised"
                /\ provider_calls' =
                       Append(provider_calls, <<provider, exception>>)
          /\ UNCHANGED <<search_found, returned>>
    /\ UNCHANGED <<attempt, searchConfig, notSearch>>

search_openrouter == ProviderBlock("openrouter", "tavily")

search_tavily == ProviderBlock("tavily", "duckduckgo")

\* one attempt of _search_duckduckgo_with_retry that returns results
duckduckgo_attempt ==
    /\ search_pc = "duckduckgo"
    /\ attempt < max_retries
    /\ \E n \in ProviderCounts :
          search_found' = Extended(search_found, "duckduckgo", n)
    /\ SearchReturn(search_found')
    /\ provider_calls' = Append(provider_calls, <<"duckduckgo", "ok">>)
    /\ UNCHANGED <<attempt, searchConfig, notSearch>>

\* one attempt of _search_duckduckgo_with_retry that raises: a timeout or a
\* rate limit is retried, anything else and the last retry leave the loop,
\* and the except clauses of search take the exception
duckduckgo_attempt_error ==
    /\ search_pc = "duckduckgo"
    /\ attempt < max_retries
    /\ \E exception \in Exceptions :
          LET retried == /\ exception \in {"TimeoutError", "RatelimitException"}
                         /\ attempt + 1 < max_retries
          IN  /\ provider_calls' =
                     Append(provider_calls, <<"duckduckgo", exception>>)
              /\ attempt' = attempt + 1
              /\ IF retried
                 THEN UNCHANGED <<search_pc, returned>>
                 ELSE IF Handled(exception, DuckDuckGoHandlers)
                      THEN SearchReturn(search_found)
                      ELSE search_pc' = "raised" /\ UNCHANGED returned
    /\ UNCHANGED <<search_found, searchConfig, notSearch>>

-----------------------------------------------------------------------------
(* ResearchDatabase (db/database.py): the sources table *)

\* the last second of the store's clock that is explored
MaxClock == 1

\* an Optional value (and a nullable column) is a sequence of at most one
\* element: None of Python and NULL of SQLite are the empty one
None == <<>>

Some(value) == <<value>>

\* datetime.now(UTC): an aware datetime (seconds stand for the whole instant)
_utc_now(second) == [second |-> second, tzinfo |-> "UTC"]

\* datetime.isoformat(): the offset is written for an aware datetime only
isoformat(datetime) ==
    <<datetime.second, IF datetime.tzinfo = "UTC" THEN "+00:00" ELSE "">>

\* datetime.fromisoformat(): a text without offset gives a naive datetime
fromisoformat(text) ==
    [second |-> text[1], tzinfo |-> IF text[2] = "+00:00" THEN "UTC" ELSE "naive"]

\* CURRENT_TIMESTAMP of SQLite: 'YYYY-MM-DD HH:MM:SS', no offset
CURRENT_TIMESTAMP(second) == <<second, "">>

\* json.dumps / json.loads of a dict, a dict being a sequence of items
dumps(dict) == <<"json", dict>>

loads(text) == text[2]

\* truth value of an Optional[dict]: None and {} are false
Truthy(dict) == dict # None /\ dict # Some(<<>>)

\* Source (db/models.py), the fields the store converts in different ways
StoreSource(id, url, content_hash, title, pico, created_at) ==
    [id |-> id, url |-> url, content_hash |-> content_hash, title |-> title,
     pico |-> pico, created_at |-> created_at]

\* the tuple of values bound by the INSERT of save_source; created_at is
\* not among its columns and takes the column default
InsertedRow(source, second) ==
    [id |-> source.id, url |-> source.url,
     content_hash |-> source.content_hash, title |-> source.title,
     pico |-> IF Truthy(source.pico) THEN Some(dumps(source.pico[1]))
                                     ELSE None,
     created_at |-> CURRENT_TIMESTAMP(second)]

\* INSERT OR REPLACE: every row that conflicts with the new one on the
\* primary key or on a UNIQUE column is deleted before the insert
InsertOrReplace(table, row) ==
    {r \in table : /\ r.id # row.id
                   /\ r.url # row.url
                   /\ r.content_hash # row.content_hash} \cup {row}

_row_to_source(row) ==
    StoreSource(row.id, row.url, row.content_hash, row.title,
                IF row.pico # None THEN Some(loads(row.pico[1])) ELSE None,
                fromisoformat(row.created_at))

\* SELECT * FROM sources WHERE id = ? ... fetchone()
get_source(table, source_id) ==
    IF \E r \in table : r.id = source_id
    THEN Some(_row_to_source(CHOOSE r \in table : r.id = source_id))
    ELSE None

\* the sources handed to save_source when the clock shows `second`
StoreIds == {"s1", "s2"}

StoreUrls == {"u1", "u2"}

StoreHashes == {"h1", "h2"}

StoreTitles == {Some("Test Article")}

StorePicos == {None, Some(<<>>), Some(<< <<"population", "adults">> >>)}

StoreSources(second) ==
    {StoreSource(id, url, hash, title, pico, _utc_now(t)) :
        id \in StoreIds, url \in StoreUrls, hash \in StoreHashes,
        title \in StoreTitles, pico \in StorePicos, t \in 0..second}

StoreIdle ==
    /\ sources_table = {}
    /\ db_now = 0
    /\ saved_source = None
    /\ retrieved = None

StoreInit == StoreIdle

\* db.save_source(source)
save_source(source) ==
    /\ source \in StoreSources(db_now)
    /\ sources_table' = InsertOrReplace(sources_table,
                                        InsertedRow(source, db_now))
    /\ saved_source' = Some(source)
    /\ UNCHANGED <<db_now, retrieved, notStore>>

\* db.get_source(source_id)
get_source_call(source_id) ==
    /\ retrieved' = get_source(sources_table, source_id)
    /\ UNCHANGED <<sources_table, db_now, saved_source, notStore>>

\* the clock of the store moves on
tick ==
    /\ db_now < MaxClock
    /\ db_now' = db_now + 1
    /\ UNCHANGED <<sources_table, saved_source, retrieved, notStore>>

-----------------------------------------------------------------------------
(* VerificationEngine.verify_claims_batch (core/verifier.py) *)

\* most claims of a batch
MaxBatch == 2

\* the fields of a Claim that verification reads or writes
BatchClaim(id, source_id, verified, method, confidence, excerpt) ==
    [id |-> id, source_id |-> source_id, verified |-> verified,
     verification_method |-> method, verification_confidence |-> confidence,
     source_excerpt |-> excerpt]

\* (sensitivity of C31_BatchUnmatched): the unmatched claim reset to a fresh one
Unmatched_reset(claim) ==
    BatchClaim(claim.id, claim.source_id, FALSE, "none", 0, "None")

\* the branch `if not source`
Unmatched(claim) ==
    [claim EXCEPT !.verified = FALSE, !.verification_confidence = 0]

\* the assignments after verify_claim returned
Matched(claim, r) ==
    [claim EXCEPT !.verified = r.verified,
                  !.verification_method = r.method,
                  !.verification_confidence = r.confidence,
                  !.source_excerpt = r.excerpt]

\* sources.get(claim.source_id) returned a source
HasSource(source_ids, claim) == claim.source_id \in source_ids

\* what verify_claim can return
BatchVerdicts ==
    {Excerpt(VerificationResult(TRUE, "exact", ContainmentConfidence),
             "context"),
     Excerpt(VerificationResult(TRUE, "nli", 90), "entailed chunk"),
     VerificationResult(FALSE, "none", 0)}
    \cup {BestAttempt(_verify_semantic(s)) : s \in Similarities}

\* claims as they reach the batch: fresh ones and ones verified before
BatchClaims ==
    {BatchClaim(id, source_id, FALSE, "none", 0, "None") :
        id \in {"c1"}, source_id \in {"s1", "s2"}}
    \cup {BatchClaim(id, source_id, TRUE, "exact", ContainmentConfidence,
                     "context") :
              id \in {"c2"}, source_id \in {"s1", "s2"}}

BatchLists == UNION {[1..n -> BatchClaims] : n \in 0..MaxBatch}

BatchIdle ==
    /\ batch_pc = "idle"
    /\ batch_input = <<>>
    /\ batch_claims = <<>>
    /\ batch_sources = {}
    /\ verified_claims = <<>>
    /\ batch_invoked = <<>>

BatchInit ==
    /\ batch_pc = "loop"
    /\ batch_input \in BatchLists
    /\ batch_claims = batch_input
    /\ batch_sources \in {{}, {"s1"}}
    /\ verified_claims = <<>>
    /\ batch_invoked = <<>>

batchArgs == <<batch_input, batch_sources>>

\* the index of the claim the loop is at
BatchIndex == Len(verified_claims) + 1

\* one iteration of the loop, for a claim without a source
batch_unmatched ==
    /\ batch_pc = "loop"
    /\ BatchIndex <= Len(batch_claims)
    /\ ~HasSource(batch_sources, batch_claims[BatchIndex])
    /\ batch_claims' = [batch_claims EXCEPT ![BatchIndex] = Unmatched(@)]
    /\ verified_claims' = Append(verified_claims, BatchIndex)
    /\ batch_invoked' = Append(batch_invoked, FALSE)
    /\ UNCHANGED <<batch_pc, batchArgs, notBatch>>

\* one iteration of the loop, for a claim with a source
batch_matched(r) ==
    /\ batch_pc = "loop"
    /\ BatchIndex <= Len(batch_claims)
    /\ HasSource(batch_sources, batch_claims[BatchIndex])
    /\ batch_claims' = [batch_claims EXCEPT ![BatchIndex] = Matched(@, r)]
    /\ verified_claims' = Append(verified_claims, BatchIndex)
    /\ batch_invoked' = Append(batch_invoked, TRUE)
    /\ UNCHANGED <<batch_pc, batchArgs, notBatch>>

\* return verified_claims
batch_return ==
    /\ batch_pc = "loop"
    /\ BatchIndex > Len(batch_claims)
    /\ batch_pc' = "returned"
    /\ UNCHANGED <<batch_claims, verified_claims, batch_invoked, batchArgs,
                   notBatch>>

-----------------------------------------------------------------------------
\* SourceCurator._score_domain (core/curator.py), with the host as text and
\* the iteration of the TRUSTED_DOMAINS set in the order the process's string
\* hashing gives it

\* `entry in domain_lower`: the entry occurs in the text
Occurs(entry, text) ==
    \E i \in 1..(Len(text) - Len(entry) + 1) :
        SubSeq(text, i, i + Len(entry) - 1) = entry

\* entries of TRUSTED_DOMAINS: academic, government, encyclopedia and news
TRUSTED_DOMAINS == {".edu", ".gov", ".gov.uk", "wikipedia.org", "bbc.co.uk"}

\* the entries that score 0.4
TopTrusted == {".edu", ".gov", "wikipedia.org"}

\* entries of LOW_QUALITY_INDICATORS
LOW_QUALITY_INDICATORS == {"forum", "medium.com"}

\* the orders a set of strings can be iterated in: one per hash seed
IterationOrders ==
    {order \in [1..Cardinality(TRUSTED_DOMAINS) -> TRUSTED_DOMAINS] :
        \A i, j \in DOMAIN order : order[i] = order[j] => i = j}

\* hosts as _get_domain returns them (lower case)
ScoredDomains ==
    {"nasa.gov", "www.gov.uk", "mit.edu", "en.wikipedia.org", "www.bbc.co.uk",
     "forum.mit.edu", "medium.com", "forum.example.com", "example.com"}

\* the first loop of _score_domain from its k-th iteration on: the first
\* entry found in the domain decides; <<>> when the loop ends without a return
RECURSIVE TrustedLoop(_, _, _)
TrustedLoop(domain_lower, order, k) ==
    IF k > Len(order) THEN <<>>
    ELSE IF Occurs(order[k], domain_lower)
         THEN (IF order[k] \in TopTrusted THEN <<40>> ELSE <<35>>)
         ELSE TrustedLoop(domain_lower, order, k + 1)

\* _score_domain, in hundredths, when the set is iterated in the given order
_score_domain_iterating(domain_lower, order) ==
    LET trusted == TrustedLoop(domain_lower, order, 1)
    IN IF trusted # <<>> THEN trusted[1]
       ELSE IF \E low_qual \in LOW_QUALITY_INDICATORS :
                   Occurs(low_qual, domain_lower)
            THEN 10
            ELSE 25

ScoreIdle ==
    /\ trusted_order = <<>>
    /\ scored_domain = ""
    /\ domain_authority = <<>>

ScoreInit ==
    /\ trusted_order \in IterationOrders
    /\ scored_domain = ""
    /\ domain_authority = <<>>

\* one call of _score_domain
score_domain_call(domain) ==
    /\ UNCHANGED notScore
    /\ scored_domain' = domain
    /\ domain_authority' = <<_score_domain_iterating(domain, trusted_order)>>
    /\ UNCHANGED trusted_order

-----------------------------------------------------------------------------
\* VerificationEngine._chunk_text (core/verifier.py), with the text as its
\* length and what chunk.rfind finds for each delimiter as an input

\* the sentence delimiters, in the order they are tried
Delimiters == <<". ", "! ", "? ", "\n\n">>

\* the parameters the engine calls _chunk_text with: _verify_semantic and
\* _verify_nli
ChunkParameters ==
    {[chunk_size |-> 500, overlap |-> 100], [chunk_size |-> 400, overlap |-> 50]}

\* len(text)
TextLengths == {0, 1, 350, 400, 401, 500, 501, 900, 1300}

\* what chunk.rfind(delim) can return for a chunk of chunk_size characters:
\* -1 (not found) or the offset of the last occurrence
RfindResults(size) == {-1, 10, size \div 2, size \div 2 + 1, size - 2}

\* (sensitivity of C40_ChunkText): a break at any delimiter found
Breaks_anywhere(last_delim, size) == last_delim > 0

\* `last_delim > chunk_size * 0.5`
Breaks(last_delim, size) == 2 * last_delim > size

\* the for loop over the delimiters from the k-th on: the length the chunk is
\* cut to at the first delimiter that breaks, 0 when none does
RECURSIVE BreakLength(_, _, _)
BreakLength(finds, size, k) ==
    IF k > Len(Delimiters) THEN 0
    ELSE IF Breaks(finds[k], size) THEN finds[k] + Len(Delimiters[k])
         ELSE BreakLength(finds, size, k + 1)

\* len(text[start:end])
SliceLength(length, start, end) ==
    IF start >= length THEN 0
    ELSE (IF end < length THEN end ELSE length) - start

ChunkIdle ==
    /\ chunk_pc = "idle"
    /\ chunk_args = <<>>
    /\ chunk_start = 0
    /\ chunks = <<>>

ChunkInit ==
    /\ chunk_pc = "loop"
    /\ \E length \in TextLengths, parameters \in ChunkParameters :
          chunk_args = <<[length |-> length, chunk_size |-> parameters.chunk_size,
                          overlap |-> parameters.overlap]>>
    /\ chunk_start = 0
    /\ chunks = <<>>

\* one iteration of the while loop
chunk_iteration(finds) ==
    LET size == chunk_args[1].chunk_size
        length == chunk_args[1].length
        whole == chunk_start + size
        cut == IF whole < length THEN BreakLength(finds, size, 1) ELSE 0
        chunk == IF cut > 0 THEN cut ELSE SliceLength(length, chunk_start, whole)
        end == IF cut > 0 THEN chunk_start + chunk ELSE whole
    IN /\ UNCHANGED notChunk
       /\ chunk_pc = "loop"
       /\ chunk_start < length
       /\ chunks' = Append(chunks, [start |-> chunk_start, length |-> chunk])
       /\ chunk_start' = end - chunk_args[1].overlap
       /\ UNCHANGED <<chunk_pc, chunk_args>>

\* the loop condition fails: return chunks
chunk_return ==
    /\ UNCHANGED notChunk
    /\ chunk_pc = "loop"
    /\ chunk_start >= chunk_args[1].length
    /\ chunk_pc' = "returned"
    /\ UNCHANGED <<chunk_args, chunk_start, chunks>>

-----------------------------------------------------------------------------
\* the components that are modelled on their own, at rest
ComponentsIdle ==
    /\ CuratorIdle /\ GraphInit /\ CrawlerIdle /\ SearchIdle /\ StoreIdle
    /\ RateIdle /\ TraceIdle
    /\ BatchIdle
    /\ ScoreIdle
    /\ ChunkIdle

Init == SessionInit /\ OrchestratorIdle /\ VerifierIdle /\ ComponentsIdle

Next ==
    \/ run_start
    \/ update_phase
    \/ update_phase_db_error
    \/ _planning
    \/ _search
    \/ _crawl
    \/ _curate
    \/ _curate_db_error
    \/ _extract_claims
    \/ \E a \in AgentNames : analyze(a)
    \/ extract_collect
    \/ extract_collect_error
    \/ _build_graph
    \/ _verify_claims
    \/ _verify_claims_db_error
    \/ _debate
    \/ _debate_db_error
    \/ _synthesize
    \/ completed
    \/ completed_db_error
    \/ except_handler
    \/ except_handler_db_error
    \/ finally_aclose
    \/ finally_aclose_error
    \/ _close_agents
    \/ _close_agents_error

Spec == Init /\ [][Next]_vars

\* a standard run with and without a websocket, whose sends may raise
InitEmit ==
    /\ \E socket \in Websockets : SessionInitWith(socket)
    /\ mode = "standard"
    /\ OrchestratorIdle /\ VerifierIdle /\ ComponentsIdle

SpecEmit == InitEmit /\ [][Next]_vars

\* conduct_debate on its own, for any participants and call outcomes
SessionIdle == SessionInit /\ mode = "standard"

InitDebate ==
    OrchestratorInit /\ SessionIdle /\ VerifierIdle /\ ComponentsIdle

NextDebate ==
    \/ _round1_positions
    \/ _check_consensus_raises
    \/ early_consensus
    \/ _round2_rebuttals
    \/ _resolve_debate_raises
    \/ final_resolution

SpecDebate == InitDebate /\ [][NextDebate]_vars

\* verify_claim on its own, for any claim, source and model answers
InitVerify ==
    VerifierInit /\ SessionIdle /\ OrchestratorIdle /\ ComponentsIdle

NextVerify ==
    \/ verify_claim_no_text
    \/ exact_tier
    \/ semantic_tier
    \/ nli_tier

SpecVerify == InitVerify /\ [][NextVerify]_vars

\* curate and _deduplicate_semantic on their own, for any pages and similarities
CoreIdle == SessionIdle /\ OrchestratorIdle /\ VerifierIdle

InitCurate ==
    CuratorInit /\ CoreIdle /\ GraphInit /\ CrawlerIdle /\ SearchIdle
    /\ StoreIdle /\ RateIdle /\ TraceIdle
    /\ BatchIdle
    /\ ScoreIdle
    /\ ChunkIdle

NextCurate ==
    \/ curate_call
    \/ _deduplicate_semantic_call

SpecCurate == InitCurate /\ [][NextCurate]_vars

\* the knowledge graph on its own, for any sequence of calls
InitGraph ==
    GraphInit /\ CoreIdle /\ CuratorIdle /\ CrawlerIdle /\ SearchIdle
    /\ StoreIdle /\ RateIdle /\ TraceIdle
    /\ BatchIdle
    /\ ScoreIdle
    /\ ChunkIdle

NextGraph ==
    \/ add_claim_call
    \/ add_claim_relation_call

SpecGraph == InitGraph /\ [][NextGraph]_vars

\* crawl_multiple as _crawl calls it, followed by _curate
InitCrawl ==
    CrawlerInit /\ CoreIdle /\ CuratorIdle /\ GraphInit /\ SearchIdle
    /\ StoreIdle /\ RateIdle /\ TraceIdle
    /\ BatchIdle
    /\ ScoreIdle
    /\ ChunkIdle

NextCrawl ==
    \/ \E k \in DOMAIN fetches : acquire(k)
    \/ \E k \in DOMAIN fetches : _apply_rate_limit(k)
    \/ \E k \in DOMAIN fetches : _apply_rate_limit_error(k)
    \/ \E k \in DOMAIN fetches : httpx_request(k)
    \/ \E k \in DOMAIN fetches : playwright_request(k)
    \/ _crawl_gathered
    \/ _crawl_raised
    \/ _curate_kept

SpecCrawl == InitCrawl /\ [][NextCrawl]_vars

\* search on its own, for any configuration and provider answers
InitSearch ==
    SearchInit /\ CoreIdle /\ CuratorIdle /\ GraphInit /\ CrawlerIdle
    /\ StoreIdle /\ RateIdle /\ TraceIdle
    /\ BatchIdle
    /\ ScoreIdle
    /\ ChunkIdle

NextSearch ==
    \/ search_openrouter
    \/ search_tavily
    \/ duckduckgo_attempt
    \/ duckduckgo_attempt_error

SpecSearch == InitSearch /\ [][NextSearch]_vars

\* the sources table on its own, for any sequence of saves and reads
InitStore ==
    StoreInit /\ CoreIdle /\ CuratorIdle /\ GraphInit /\ CrawlerIdle
    /\ SearchIdle /\ RateIdle /\ TraceIdle
    /\ BatchIdle
    /\ ScoreIdle
    /\ ChunkIdle

NextStore ==
    \/ \E source \in StoreSources(db_now) : save_source(source)
    \/ \E source_id \in StoreIds : get_source_call(source_id)
    \/ tick

SpecStore == InitStore /\ [][NextStore]_vars

\* crawl tasks in time, up to the start of their request
InitRate ==
    RateInit /\ CoreIdle /\ CuratorIdle /\ GraphInit /\ CrawlerIdle
    /\ SearchIdle /\ StoreIdle /\ TraceIdle
    /\ BatchIdle
    /\ ScoreIdle
    /\ ChunkIdle

NextRate ==
    \/ \E k \in DOMAIN rate_tasks : crawl_enter(k)
    \/ \E k \in DOMAIN rate_tasks : _apply_rate_limit_read(k)
    \/ \E k \in DOMAIN rate_tasks : _apply_rate_limit_write(k)
    \/ \E k \in DOMAIN rate_tasks : crawl_leave(k)
    \/ time_passes

SpecRate == InitRate /\ [][NextRate]_vars

\* the fetch of one URL, for any answers of the two clients
InitTrace ==
    TraceInit /\ CoreIdle /\ CuratorIdle /\ GraphInit /\ CrawlerIdle
    /\ SearchIdle /\ StoreIdle /\ RateIdle
    /\ BatchIdle
    /\ ScoreIdle
    /\ ChunkIdle

NextTrace ==
    \/ traced_httpx_request
    \/ traced_playwright_request

SpecTrace == InitTrace /\ [][NextTrace]_vars

\* the graph as the session builds it: new claims only, no relation calls
InitLink ==
    GraphInit /\ CoreIdle /\ CuratorIdle /\ CrawlerIdle /\ SearchIdle
    /\ StoreIdle /\ RateIdle /\ TraceIdle /\ BatchIdle
    /\ ScoreIdle
    /\ ChunkIdle

NextLink == add_new_claim

SpecLink == InitLink /\ [][NextLink]_vars

\* a batch of claims, for any source map and any results of verify_claim
InitScore ==
    ScoreInit /\ CoreIdle /\ CuratorIdle /\ GraphInit /\ CrawlerIdle
    /\ SearchIdle /\ StoreIdle /\ RateIdle /\ TraceIdle /\ BatchIdle
    /\ ChunkIdle

NextScore == \E domain \in ScoredDomains : score_domain_call(domain)

SpecScore == InitScore /\ [][NextScore]_vars

InitChunk ==
    ChunkInit /\ CoreIdle /\ CuratorIdle /\ GraphInit /\ CrawlerIdle
    /\ SearchIdle /\ StoreIdle /\ RateIdle /\ TraceIdle /\ BatchIdle
    /\ ScoreIdle

NextChunk ==
    \/ \E finds \in [DOMAIN Delimiters -> RfindResults(chunk_args[1].chunk_size)] :
          chunk_iteration(finds)
    \/ chunk_return

\* the loop is straight-line code of one coroutine without an await: an
\* iteration that can run does run
SpecChunk == InitChunk /\ [][NextChunk]_vars /\ WF_vars(NextChunk)

InitBatch ==
    BatchInit /\ CoreIdle /\ CuratorIdle /\ GraphInit /\ CrawlerIdle
    /\ SearchIdle /\ StoreIdle /\ RateIdle /\ TraceIdle
    /\ ScoreIdle
    /\ ChunkIdle

NextBatch ==
    \/ batch_unmatched
    \/ \E r \in BatchVerdicts : batch_matched(r)
    \/ batch_return

SpecBatch == InitBatch /\ [][NextBatch]_vars

-----------------------------------------------------------------------------
(* Properties of ResearchSessionManager.run, checked under Spec *)

Range(seq) == {seq[i] : i \in 1..Len(seq)}

IsPrefix(s, t) == Len(s) <= Len(t) /\ SubSeq(t, 1, Len(s)) = s

IsStatusEvent(e) == e.type = "status"

IsErrorEvent(e) == e.type = "error"

StatusEvents == SelectSeq(emitted, IsStatusEvent)

ErrorEvents == SelectSeq(emitted, IsErrorEvent)

\* run() has returned the session or raised
Finished == pc \in {"returned", "raised"}

\* the except clause of run() has been entered
HandlerEntered == "ERROR" \in Range(phases)

NotDebating(p) == p # "DEBATING"

\* the phases entered before ERROR
BeforeError(seq) ==
    IF seq # <<>> /\ seq[Len(seq)] = "ERROR"
    THEN SubSeq(seq, 1, Len(seq) - 1)
    ELSE seq

\* C1: the phases a session enters are a prefix of PLANNING, SEARCHING,
\* CRAWLING, CURATING, EXTRACTING, BUILDING_GRAPH, VERIFYING, [DEBATING],
\* SYNTHESIZING, COMPLETE, optionally followed by ERROR: the session starts in
\* PLANNING, enters no phase twice, skips none but DEBATING, and enters no
\* phase after a terminal one (COMPLETE or ERROR).
C1_PhaseSequence ==
    /\ phases = <<>> => phase = "PLANNING"
    /\ \/ IsPrefix(BeforeError(phases), PhaseOrder)
       \/ IsPrefix(BeforeError(phases), SelectSeq(PhaseOrder, NotDebating))
    /\ "COMPLETE" \in Range(phases) => phases[Len(phases)] = "COMPLETE"

ContradictionsExist == \E e \in edges : e.relation = "CONTRADICTS"

GateOpen == enable_debate /\ ContradictionsExist

\* C2: DEBATING is entered exactly when VERIFYING finished without failure,
\* enable_debate is set and find_contradictions() returns at least one
\* CONTRADICTS pair; otherwise the phase after VERIFYING is SYNTHESIZING; a
\* quick-mode session never enters DEBATING.
C2_DebateGate ==
    /\ \A k \in 1..Len(phases) :
          phases[k] = "DEBATING" =>
              k > 1 /\ phases[k - 1] = "VERIFYING" /\ GateOpen
    /\ \A k \in 1..(Len(phases) - 1) :
          phases[k] = "VERIFYING" =>
              phases[k + 1] \in
                  {IF GateOpen THEN "DEBATING" ELSE "SYNTHESIZING", "ERROR"}
    /\ (pc = "update_phase" /\ phase = "VERIFYING") =>
          target = (IF GateOpen THEN "DEBATING" ELSE "SYNTHESIZING")
    /\ mode = "quick" => "DEBATING" \notin Range(phases)

\* a session with debate enabled and a contradiction is debating
C2_Witness == pc = "_debate" /\ phase = "DEBATING" /\ GateOpen

\* C3: when a step of the pipeline raises, no later phase is executed and the
\* session ends with phase ERROR, status 'error' and exactly one error
\* notification emitted; a run in which nothing raises emits none.
C3_ErrorHandling ==
    Finished =>
        /\ HandlerEntered =>
              /\ phase = "ERROR"
              /\ status = "error"
              /\ phases[Len(phases)] = "ERROR"
              /\ Len(ErrorEvents) = 1
        /\ ~HandlerEntered => Len(ErrorEvents) = 0

\* C4: on every exit path of run(), the HTTP client and the connections of all
\* four agents are closed by the time run() returns or raises.
C4_ResourcesClosed == Finished => closed = Resources

\* the agent's task returned claims that the Claim model accepts
Usable(task) ==
    /\ task.state = "returned"
    /\ \A k \in 1..Len(task.claims) : task.claims[k] # Malformed

\* the claims of the agents whose output is usable, in agent order
RECURSIVE UsableClaims(_, _)
UsableClaims(ts, i) ==
    IF i > Len(Agents) THEN <<>>
    ELSE (IF Usable(ts[Agents[i]])
          THEN [k \in 1..Len(ts[Agents[i]].claims) |->
                   [agent |-> Agents[i], text |-> ts[Agents[i]].claims[k]]]
          ELSE <<>>)
         \o UsableClaims(ts, i + 1)

\* C5: in EXTRACTING, for every subset of the three agents that fail (raise or
\* return unusable output), the claims of the others are all collected, the
\* failing agents contribute none, and the session proceeds to BUILDING_GRAPH.
C5_FailureIsolation ==
    [][(pc = "gather" /\ GatherDone) =>
          /\ pc' = "update_phase"
          /\ target' = "BUILDING_GRAPH"
          /\ [k \in 1..Len(claims') |->
                 [agent |-> claims'[k].agent, text |-> claims'[k].text]]
                = UsableClaims(tasks, 1)]_vars

\* C6: run() returns a session in a terminal state, COMPLETE / 'completed' /
\* 100 or ERROR / 'error'; it never ends otherwise.
C6_ReturnsTerminal ==
    Finished =>
        /\ pc = "returned"
        /\ \/ phase = "COMPLETE" /\ status = "completed" /\ progress_percent = 100
           \/ phase = "ERROR" /\ status = "error"

\* the progress values of the phases of PhaseOrder
ProgressValues == <<5, 10, 20, 30, 45, 60, 70, 80, 90, 100>>

PhaseIndex(p) == CHOOSE i \in 1..Len(PhaseOrder) : PhaseOrder[i] = p

UpdateCompletes == pc = "update_phase" /\ pc' # "except"

OnePositionPerAgent(round) ==
    /\ Len(round) = Len(Agents)
    /\ \A i \in 1..Len(Agents) : round[i].agent_name = Agents[i]

\* round 1 ends the debate: fewer than two positions, or mean confidence > 0.7
EarlyConsensus(round1) ==
    \/ Len(round1) < 2
    \/ SumConfidence(round1) > 70 * Len(round1)

\* the session went past the debate gate with the gate open
DebateDue == GateOpen /\ "SYNTHESIZING" \in Range(phases)

\* C8 as stated: when contradictions exist and debate is enabled, the session
\* visits DEBATING and the DebateResult has exactly 2 rounds, each with exactly
\* one position per participating agent.
C8_TwoRounds ==
    DebateDue =>
        /\ "DEBATING" \in Range(phases)
        /\ Len(debate_result.rounds) = 2
        /\ \A r \in 1..Len(debate_result.rounds) :
              OnePositionPerAgent(debate_result.rounds[r])

\* C8, amended: when contradictions exist and debate is enabled, the session
\* visits DEBATING and the DebateResult has 2 rounds, or 1 round when round 1
\* reached consensus (mean confidence > 0.7); each round has exactly one
\* position per participating agent, whatever the confidences and failures.
C8_DebateRounds ==
    DebateDue =>
        /\ "DEBATING" \in Range(phases)
        /\ Len(debate_result.rounds) >= 1
        /\ Len(debate_result.rounds) =
              (IF EarlyConsensus(debate_result.rounds[1]) THEN 1 ELSE 2)
        /\ debate_rounds = Len(debate_result.rounds)
        /\ \A r \in 1..Len(debate_result.rounds) :
              OnePositionPerAgent(debate_result.rounds[r])

\* a debate of two rounds in which a completion call failed
C8_Witness ==
    /\ DebateDue
    /\ Len(debate_result.rounds) = 2
    /\ debate_result.rounds[2][3].position = "Error generating position"

-----------------------------------------------------------------------------
(* Properties of conduct_debate, checked under SpecDebate *)

DebateReturned == debate_pc = "returned"

NarrowSpread(positions) ==
    \A i, j \in 1..Len(positions) :
        positions[i].confidence - positions[j].confidence < 20

MeanAbove(positions, limit) ==
    positions # <<>> /\ SumConfidence(positions) > limit * Len(positions)

\* `position` is the position of an entry of the round with the highest
\* confidence
IsHighest(position, round) ==
    \E i \in 1..Len(round) :
        /\ round[i].position = position
        /\ \A j \in 1..Len(round) : round[j].confidence <= round[i].confidence

\* C9 as stated: consensus_reached holds iff, over the round-2 positions,
\* max - min < 0.2 and mean > 0.5; then the winning position is a
\* highest-confidence round-2 position; otherwise there is none.
C9_Consensus ==
    DebateReturned =>
        LET round2 == IF Len(orch_result.rounds) >= 2
                      THEN orch_result.rounds[2] ELSE <<>>
        IN  /\ orch_result.consensus_reached <=>
                  /\ Len(orch_result.rounds) >= 2
                  /\ NarrowSpread(round2)
                  /\ MeanAbove(round2, 50)
            /\ orch_result.consensus_reached =>
                  IsHighest(orch_result.winning_position, round2)
            /\ ~orch_result.consensus_reached =>
                  orch_result.winning_position = NoPosition

\* C9, amended: for a result with a second round, consensus_reached holds iff
\* over the round-2 positions max - min < 0.2 and mean > 0.5, the winning
\* position then being a highest-confidence round-2 position and otherwise
\* absent; a result returned after round 1 (fewer than two positions, or mean
\* round-1 confidence > 0.7) has consensus_reached true and a
\* highest-confidence round-1 position as the winner (none without positions).
C9_ConsensusAfterRebuttals ==
    DebateReturned =>
        LET round1 == orch_result.rounds[1]
        IN  IF Len(orch_result.rounds) = 2
            THEN LET round2 == orch_result.rounds[2]
                 IN  /\ ~EarlyConsensus(round1)
                     /\ orch_result.consensus_reached <=>
                           NarrowSpread(round2) /\ MeanAbove(round2, 50)
                     /\ orch_result.consensus_reached =>
                           IsHighest(orch_result.winning_position, round2)
                     /\ ~orch_result.consensus_reached =>
                           orch_result.winning_position = NoPosition
            ELSE /\ Len(orch_result.rounds) = 1
                 /\ EarlyConsensus(round1)
                 /\ orch_result.consensus_reached
                 /\ IF round1 = <<>>
                    THEN orch_result.winning_position = NoPosition
                    ELSE IsHighest(orch_result.winning_position, round1)

\* a debate of three agents settled by the rebuttals
C9_Witness ==
    /\ DebateReturned
    /\ Len(agent_names) = 3
    /\ Len(orch_result.rounds) = 2
    /\ orch_result.consensus_reached

\* the second round was run
SecondRoundRun == Len(orch_rounds) = 2

\* conduct_debate is past its test of the first round
PastConsensusCheck == debate_pc \in {"_resolve_debate", "returned", "raised"}

\* C22: conduct_debate runs round 2 if and only if round 1 has at least 2
\* positions and their mean confidence does not exceed 0.7; otherwise it
\* returns after round 1 alone with consensus_reached = true and, as the
\* winning position, that of a highest-confidence round-1 position (there is
\* none to name when round 1 is empty).
C22_SecondRound ==
    PastConsensusCheck =>
        LET round1 == orch_rounds[1]
        IN  /\ SecondRoundRun <=>
                  /\ Len(round1) >= 2
                  /\ ~MeanAbove(round1, ConsensusThreshold)
            /\ ~SecondRoundRun =>
                  /\ DebateReturned
                  /\ orch_result.rounds = <<round1>>
                  /\ orch_result.consensus_reached
                  /\ round1 # <<>> =>
                         IsHighest(orch_result.winning_position, round1)

\* the completion call failed or its output was malformed
FailedOrMalformed(o) == ~o.ok \/ o.confidence_type # "float"

IsErrorPosition(pos) ==
    /\ pos.position = "Error generating position"
    /\ pos.confidence_type = "float"
    /\ pos.confidence = 0

\* conduct_debate raised while it tested the first round
AbortedAfterRound1 == debate_pc = "raised" /\ ~SecondRoundRun

\* C23: in round 1 an agent whose completion call fails or returns malformed
\* output gets an error position with confidence 0; round 1 holds exactly one
\* position for every participating agent, in agent order, and neither the
\* round nor the debate is aborted.
C23_ErrorPositions ==
    orch_calls # <<>> =>
        LET round1 == orch_rounds[1]
            out    == orch_calls[1]
        IN  /\ Len(round1) = Len(agent_names)
            /\ \A i \in 1..Len(round1) :
                   /\ round1[i].agent_name = agent_names[i]
                   /\ FailedOrMalformed(out[i]) => IsErrorPosition(round1[i])
            /\ ~AbortedAfterRound1

\* C24: in round 2 an agent whose call fails keeps its round-1 record
\* unchanged (same position text, argument and confidence); round 2 holds
\* exactly the agents of round 1 in the same order, and every agent's position
\* text in round 2 equals its round-1 position text.
C24_RebuttalsKeepPositions ==
    SecondRoundRun =>
        LET round1 == orch_rounds[1]
            round2 == orch_rounds[2]
            out    == orch_calls[2]
        IN  /\ Len(round2) = Len(round1)
            /\ \A i \in 1..Len(round2) :
                   /\ round2[i].agent_name = round1[i].agent_name
                   /\ round2[i].position = round1[i].position
                   /\ ~out[i].ok => round2[i] = round1[i]

\* a second round of three agents in which one call failed and another
\* changed the agent's confidence and argument
C24_Witness ==
    /\ SecondRoundRun
    /\ Len(agent_names) = 3
    /\ ~orch_calls[2][1].ok
    /\ orch_rounds[2][1] = orch_rounds[1][1]
    /\ orch_rounds[1][1].position = StanceOf("scout")
    /\ orch_rounds[2][2].confidence # orch_rounds[1][2].confidence
    /\ orch_rounds[2][2].argument # orch_rounds[1][2].argument

-----------------------------------------------------------------------------
(* Properties of the debate records, checked under Spec *)

IsDebateEvent(e) == e.type = "debate"

DebateEventsEmitted == SelectSeq(emitted, IsDebateEvent)

\* the round and the agent the k-th record of a debate of all agents is about
RoundOfRecord(k) == ((k - 1) \div Len(Agents)) + 1

AgentOfRecord(k) == Agents[((k - 1) % Len(Agents)) + 1]

\* C25: every debate record carries the 1-based number of the round its
\* position belongs to, in round order then agent order, both in the flat
\* export of to_debate_rounds and in the debate events the session emits; every
\* position of the second round is reported with round_number 2, whatever the
\* round-2 calls returned.
C25_RoundNumbers ==
    debate_result # NoResult =>
        LET flat   == to_debate_rounds(debate_result)
            events == DebateEventsEmitted
        IN  /\ Len(flat) = Len(debate_result.rounds) * Len(Agents)
            /\ \A k \in 1..Len(flat) :
                   /\ flat[k].round_number = RoundOfRecord(k)
                   /\ flat[k].agent_name = AgentOfRecord(k)
            /\ Len(events) = Len(flat)
            /\ \A k \in 1..Len(events) :
                   /\ events[k].n = RoundOfRecord(k)
                   /\ events[k].agent = AgentOfRecord(k)

-----------------------------------------------------------------------------
(* Properties of verify_claim, checked under SpecVerify *)

\* the claim, lower-cased and stripped, is contained in the lower-cased source
DirectContainment ==
    Contains(Strip(LowerText(claim_text)), LowerText(source_text))

\* at least three key words, all found within the window
KeywordProximity ==
    /\ Len(_extract_key_words(claim_text)) >= 3
    /\ _check_proximity(_extract_key_words(claim_text), source_text)

\* the exact tier has run and succeeded
ExactSucceeded ==
    "exact" \in invoked /\ (DirectContainment \/ KeywordProximity)

\* C10: in verify_claim, whenever the exact tier succeeds (case-insensitive
\* containment, or the keyword-proximity test), the semantic and NLI tiers are
\* never invoked and the result is verified, method exact, confidence >= 0.85
\* (0.95 for direct containment).
C10_ExactShortCircuit ==
    ExactSucceeded =>
        /\ verify_pc = "returned"
        /\ invoked = {"exact"}
        /\ verification.verified
        /\ verification.method = "exact"
        /\ verification.confidence >= 85
        /\ DirectContainment => verification.confidence = 95

\* a claim verified by keyword proximity alone
C10_Witness ==
    /\ verify_pc = "returned"
    /\ ExactSucceeded
    /\ ~DirectContainment
    /\ verification.method = "exact"

\* the key words of the claim (by position) that occur in the source
KeyWordsFound ==
    LET words == _extract_key_words(claim_text)
    IN  {i \in 1..Len(words) : Find(words[i], LowerText(source_text)) # -1}

\* the key words that occur in the source lie within the proximity window
WithinWindow ==
    LET words == _extract_key_words(claim_text)
    IN  \A i, j \in KeyWordsFound :
            Find(words[i], LowerText(source_text))
                - Find(words[j], LowerText(source_text)) <= ProximityWindow * Len(words)

\* the case of the keyword rule: no containment, at least 3 key words, at
\* least 70% of them in the source within the window
ProximityDue ==
    /\ source_text # <<>>
    /\ ~DirectContainment
    /\ Len(_extract_key_words(claim_text)) >= 3
    /\ 10 * Cardinality(KeyWordsFound)
           >= 7 * Len(_extract_key_words(claim_text))
    /\ WithinWindow

\* C29: when the claim text is not contained in the source text, the claim
\* has at least 3 key words after stopword filtering and at least 70% of them
\* occur in the source within the proximity window, the exact tier returns
\* verified with confidence 0.85 and verify_claim returns method exact, also
\* when fewer than all of the key words are present.
C29_ProximityAt70Percent ==
    (ProximityDue /\ "exact" \in invoked) =>
        /\ verify_pc = "returned"
        /\ verification.verified
        /\ verification.method = "exact"
        /\ verification.confidence = 85

\* verify_claim returned without a tier having verified the claim
NoTierVerified == verify_pc = "returned" /\ ~verification.verified

\* C30: when no tier verifies, verify_claim returns (false, semantic,
\* similarity, best chunk) if the best semantic similarity is > 0.5 and
\* (false, none, 0, no excerpt) otherwise; over all results method = none
\* implies verified = false and confidence = 0, and verified = true implies
\* method exact, semantic (similarity > 0.85) or nli (only when the caller
\* enabled NLI and the similarity is > 0.65).
C30_Results ==
    verify_pc = "returned" =>
        /\ NoTierVerified =>
              IF "semantic" \in invoked /\ semantic_result.confidence > 50
              THEN /\ verification.method = "semantic"
                   /\ verification.confidence = semantic_result.confidence
                   /\ verification.excerpt = "best chunk"
              ELSE /\ verification.method = "none"
                   /\ verification.confidence = 0
                   /\ verification.excerpt = "None"
        /\ verification.method = "none" =>
              ~verification.verified /\ verification.confidence = 0
        /\ verification.verified =>
              \/ verification.method = "exact"
              \/ /\ verification.method = "semantic"
                 /\ verification.confidence = semantic_result.confidence
                 /\ semantic_result.confidence > 85
              \/ /\ verification.method = "nli"
                 /\ use_nli
                 /\ semantic_result.confidence > 65

\* an unverified claim that comes back with its semantic similarity, after the
\* NLI tier was tried
C30_Witness ==
    /\ NoTierVerified
    /\ invoked = {"exact", "semantic", "nli"}
    /\ verification.method = "semantic"
    /\ verification.confidence > 65

-----------------------------------------------------------------------------
(* Properties of SourceCurator, checked under SpecCurate *)

Curated == curate_pc = "curated"

\* the content hashes carried by the successfully fetched pages of the input
FetchedHashes ==
    {crawled[k].content_hash : k \in {n \in 1..Len(crawled) : crawled[n].success}}

WithHash(list, hash) == {k \in 1..Len(list) : list[k].content_hash = hash}

\* two pages of the input carry the same content hash
SharedHash(pages) ==
    \E a, b \in pages : a # b /\ crawled[a].content_hash = crawled[b].content_hash

FetchedPages == {k \in 1..Len(crawled) : crawled[k].success}

\* C11 as stated: for every content hash carried by a successfully fetched
\* page the curated output holds exactly one Source with that hash, and
\* duplicates_removed >= 1 whenever two inputs share a hash.
C11_ExactlyOnePerHash ==
    Curated =>
        /\ \A hash \in FetchedHashes :
               Cardinality(WithHash(curation.sources, hash)) = 1
        /\ SharedHash(1..Len(crawled)) => curation.duplicates_removed >= 1

\* C11 as the code has it: exact deduplication leaves exactly one Source for
\* every content hash of a successfully fetched page, the curated output
\* holds at most one Source per content hash (the later steps may drop it),
\* and duplicates_removed >= 1 whenever two successfully fetched inputs share
\* a hash.
C11_OnePerHash ==
    Curated =>
        /\ \A hash \in FetchedHashes :
               /\ Cardinality(WithHash(
                      _deduplicate_exact(Successful(crawled, 1)).unique,
                      hash)) = 1
               /\ Cardinality(WithHash(curation.sources, hash)) <= 1
        /\ SharedHash(FetchedPages) => curation.duplicates_removed >= 1

C11_Witness ==
    /\ Curated
    /\ SharedHash(FetchedPages)
    /\ curation.duplicates_removed >= 1
    /\ \E hash \in FetchedHashes : WithHash(curation.sources, hash) = {}
    /\ \E hash \in FetchedHashes :
           /\ Cardinality(WithHash(Successful(crawled, 1), hash)) = 2
           /\ Cardinality(WithHash(curation.sources, hash)) = 1

NoSimilarPair(list) ==
    \A a, b \in 1..Len(list) :
        a # b => ~(Similarity(similarity, list[a], list[b]) > similarity_threshold)

\* C12: no two sources retained by _deduplicate_semantic, and hence none
\* retained by curate, have a pairwise similarity above 0.85, whatever the
\* input list, the credibility scores and the (symmetric) similarities.
C12_NoSimilarPair ==
    /\ curate_pc = "deduplicated" => NoSimilarPair(retained)
    /\ Curated => NoSimilarPair(curation.sources)

C12_Witness ==
    /\ curate_pc = "deduplicated"
    /\ Len(crawled) = 3
    /\ Len(retained) = 2
    /\ \E pair \in DOMAIN similarity : similarity[pair] > similarity_threshold

\* C13: every source returned by curate has 0 <= credibility_score <= 1, and
\* the score equals the sum, clipped to 1, of the values in the source's
\* credibility_factors map as the map stands when curate returns.
C13_ScoreIsClippedSum ==
    Curated =>
        \A k \in 1..Len(curation.sources) :
            LET source == curation.sources[k]
            IN  /\ 0 <= source.credibility_score
                /\ source.credibility_score <= 100
                /\ source.credibility_score
                       = Clip(SumFactors(source.credibility_factors))

-----------------------------------------------------------------------------
(* Properties of KnowledgeGraph, checked under SpecGraph *)

\* the ordered claim pairs whose edge was last given the relation CONTRADICTS
ContradictsEdges ==
    {p \in DOMAIN latest : latest[p] = "CONTRADICTS"}

\* C14: after any sequence of add_claim and add_claim_relation calls,
\* find_contradictions returns one triple for every graph edge whose relation
\* is CONTRADICTS and none for any other edge, so the length of the result is
\* the number of CONTRADICTS edges.
C14_Contradictions ==
    /\ ContradictionPairs(G) = {<<p[1][2], p[2][2]>> : p \in ContradictsEdges}
    /\ Cardinality(find_contradictions(G.edges)) = Cardinality(ContradictsEdges)
    /\ \A p \in ContradictsEdges :
           Cardinality({e \in find_contradictions(G.edges) :
                            e.from = p[1] /\ e.to = p[2]}) = 1

C14_Witness ==
    /\ graph_calls = MaxCalls
    /\ \E p \in ContradictsEdges : <<p[2], p[1]>> \in ContradictsEdges /\ p[1] # p[2]
    /\ Cardinality(find_contradictions(G.edges)) = 2
    /\ Cardinality(G.edges) > 2

\* C20: after any sequence of add_claim calls, get_statistics reports as
\* claim_nodes the number of distinct claim ids added, as source_nodes the
\* number of distinct source ids supplied, and as entity_nodes the number of
\* distinct normalized entity labels (lowercased, spaces replaced by
\* underscores) of the added claims.
C20_Statistics ==
    /\ get_statistics(G).claim_nodes = Cardinality(added_claims)
    /\ get_statistics(G).source_nodes = Cardinality(supplied_sources)
    /\ get_statistics(G).entity_nodes =
           Cardinality({[k \in 1..Len(label) |->
                            IF Lower(label[k]) = "SP" THEN "_" ELSE Lower(label[k])] :
                        label \in entity_labels})

C20_Witness ==
    /\ Cardinality(entity_labels) = 3
    /\ get_statistics(G).entity_nodes = 2
    /\ get_statistics(G).claim_nodes = 2
    /\ get_statistics(G).source_nodes = 2
    /\ graph_calls = 3

-----------------------------------------------------------------------------
(* Properties of WebCrawler and of the session's use of it, under SpecCrawl *)

\* the fetches that are inside `async with self.semaphore`
InFlight ==
    {k \in DOMAIN fetches :
        fetches[k].at \in {"_apply_rate_limit", "_crawl_with_httpx",
                           "_crawl_with_playwright"}}

\* C15: under any interleaving of the crawl tasks of crawl_multiple, retries,
\* backoff and browser fallback included, the number of fetches in flight
\* inside the limiter never exceeds max_concurrent.
C15_Concurrency ==
    /\ Cardinality(InFlight) <= max_concurrent
    /\ semaphore >= 0

C15_Witness ==
    /\ max_concurrent = 2
    /\ Cardinality(InFlight) = 2
    /\ \E k \in DOMAIN fetches : fetches[k].at = "waiting"
    /\ \E k \in InFlight : fetches[k].retry_count = MaxRetries429
    /\ \E k \in InFlight :
           fetches[k].at = "_crawl_with_playwright" /\ fetches[k].got_403

AllFetched == \A k \in DOMAIN fetches : fetches[k].at = "done"

\* C16: a page whose fetch ends with success = false is never turned into a
\* Source, it is absent from the session's crawled content and from curate's
\* output, and no failure to fetch a page, of any number of pages, moves the
\* session to ERROR: the pipeline continues to CURATING.
C16_FailedPagesExcluded ==
    /\ crawl_pc \in {"CURATING", "EXTRACTING"} =>
           /\ \A n \in 1..Len(kept_content) : kept_content[n].success
           /\ Len(kept_content) =
                  Cardinality({k \in DOMAIN fetches : fetches[k].result.success})
    /\ crawl_pc = "EXTRACTING" =>
           \A n \in 1..Len(kept_sources) :
               kept_content[kept_sources[n].id].success
    /\ AllFetched =>
           LET crawled_list ==
                   [k \in 1..Len(urls) |-> ContentOf(urls[k], fetches[k])]
               curated == curate(crawled_list, Dissimilar(Len(urls)), 50).sources
           IN  \A n \in 1..Len(curated) : fetches[curated[n].id].result.success
    /\ crawl_pc # "ERROR"

Fallen(k) ==
    /\ fetches[k].at = "done"
    /\ fetches[k].got_403
    /\ retry_with_playwright

\* C18 as stated: when the lightweight fetch gets HTTP 403 and the browser
\* fallback is enabled, the final CrawledContent either has the metadata
\* method 'playwright' or has success = false with an error that says
\* 'blocked'; no other outcome occurs.
C18_BlockedOrBrowser ==
    \A k \in DOMAIN fetches :
        Fallen(k) =>
            \/ fetches[k].result.method = "playwright"
            \/ /\ ~fetches[k].result.success
               /\ fetches[k].result.error = "HTTP 403 (blocked)"

\* C18 as the code has it: after a 403 with the fallback enabled the result
\* is the browser's, whatever it is: success with method 'playwright';
\* success = false with 'HTTP 403 (blocked)' and method 'playwright' when the
\* browser is blocked too; success = false with 'Playwright not installed' or
\* 'Playwright error: ...' and no metadata when the browser cannot be used.
\* The result is never the lightweight client's.
C18_Fallback ==
    \A k \in DOMAIN fetches :
        Fallen(k) =>
            fetches[k].result \in
                {FetchResult(TRUE, "", "playwright"),
                 FetchResult(FALSE, "HTTP 403 (blocked)", "playwright"),
                 FetchResult(FALSE, "Playwright not installed", "None"),
                 FetchResult(FALSE, "Playwright error: error", "None")}

C18_Witness ==
    \E k, n \in DOMAIN fetches :
        /\ Fallen(k) /\ Fallen(n)
        /\ fetches[k].result = FetchResult(FALSE, "HTTP 403 (blocked)", "playwright")
        /\ fetches[n].result = FetchResult(FALSE, "Playwright not installed", "None")
        /\ fetches[n].retry_count > 0

-----------------------------------------------------------------------------
(* Properties of SearchEngine.search, checked under SpecSearch *)

CallsOf(provider) ==
    {n \in 1..Len(provider_calls) : provider_calls[n][1] = provider}

Succeeded(n) == provider_calls[n][2] = "ok"

\* C17: search never raises; for every combination of provider failures a
\* failing provider falls through to the next one, and search returns the
\* results accumulated from the providers that succeeded (possibly none),
\* never more than max_results.
C17_SearchReturns ==
    /\ search_pc # "raised"
    /\ \A provider \in Providers :
           (\A n \in CallsOf(provider) : ~Succeeded(n)) =>
               \A n \in 1..Len(search_found) : search_found[n] # provider
    /\ search_pc = "returned" =>
           /\ Len(returned) <= max_results
           /\ IsPrefix(returned, search_found)
           /\ Len(returned) = max_results \/ returned = search_found
           /\ \A n \in 1..Len(provider_calls) :
                  (provider_calls[n][1] # "duckduckgo" /\ ~Succeeded(n)) =>
                      \E later \in (n + 1)..Len(provider_calls) :
                          provider_calls[later][1] = "duckduckgo"

C17_Witness ==
    /\ search_pc = "returned"
    /\ \E n \in CallsOf("openrouter") : ~Succeeded(n)
    /\ Cardinality(CallsOf("duckduckgo")) = max_retries
    /\ Len(search_found) > max_results
    /\ Len(returned) = max_results

-----------------------------------------------------------------------------
(* Properties of the session's claim list, checked under Spec *)

PastVerifying == phase \in {"DEBATING", "SYNTHESIZING", "COMPLETE"}

\* C19 as stated: every claim created in EXTRACTING stays in the session's
\* claim list (claim_count equal to its length), and every claim's
\* verification outcome is written exactly once, by VERIFYING and by no other
\* phase.
C19_VerifiedOnce ==
    /\ claim_count = Len(claims)
    /\ \A k \in 1..Len(claims) :
           /\ claims[k].verification_writes <= 1
           /\ claims[k].verification_writes = 1 => "VERIFYING" \in Range(phases)
           /\ PastVerifying => claims[k].verification_writes = 1

SameClaim(before, after) ==
    /\ after.id = before.id
    /\ after.agent = before.agent
    /\ after.text = before.text
    /\ after.has_source = before.has_source

\* C19 as the code has it: once _extract_claims has stored the claim list, no
\* step removes, adds or reorders a claim and claim_count equals the length
\* of the list. Verification fields are written only in VERIFYING and at most
\* once per claim: when _verify_claims completes, exactly once for every
\* claim whose source_id names a curated source and never for a claim whose
\* source is not found (such a claim keeps verified = false).
C19_ClaimsKept ==
    [][ /\ claim_count' = Len(claims')
        /\ claims # <<>> =>
               /\ Len(claims') = Len(claims)
               /\ \A k \in 1..Len(claims) :
                      /\ SameClaim(claims[k], claims'[k])
                      /\ claims'[k] # claims[k] =>
                             /\ phase = "VERIFYING"
                             /\ claims[k].has_source
                             /\ claims[k].verification_writes = 0
                             /\ claims'[k].verification_writes = 1
        /\ (pc = "_verify_claims" /\ pc' = "update_phase") =>
               \A k \in 1..Len(claims') :
                   claims'[k].verification_writes =
                       IF claims'[k].has_source THEN 1 ELSE 0
      ]_vars

C19_Witness ==
    /\ phase = "SYNTHESIZING"
    /\ Len(claims) >= 2
    /\ \A k \in 1..Len(claims) : claims[k].verification_writes = 1
    /\ \E k, n \in 1..Len(claims) : claims[k].verified /\ ~claims[n].verified


-----------------------------------------------------------------------------
(* Properties of ResearchDatabase, checked under SpecStore *)

\* C21 (as stated): right after save_source(s), get_source(s.id) returns a
\* source with the fields of s, and the table holds at most one row for any
\* id and at most one for any content hash.
C21_KeyedUpsert ==
    /\ saved_source # None =>
           get_source(sources_table, saved_source[1].id) = saved_source
    /\ \A r1, r2 \in sources_table :
           (r1.id = r2.id \/ r1.content_hash = r2.content_hash) => r1 = r2


-----------------------------------------------------------------------------
(* Properties of the rate limit of WebCrawler.crawl, checked under SpecRate *)

\* the tasks that have read the last request time of the domain and not yet
\* written the new one
BetweenReadAndWrite(domain) ==
    {k \in DOMAIN rate_tasks :
        rate_domains[k] = domain /\ rate_tasks[k].at = "sleeping"}

\* C26: under any interleaving of concurrent crawl tasks, two requests to the
\* same domain issued through crawl are never started less than min_delay
\* apart; the read of the domain's last-request time and the write of the new
\* one are one step for the other tasks of the domain (no two tasks of a
\* domain are between their read and their write at once).
C26_RequestsSpaced ==
    /\ \A r1, r2 \in requests :
           (r1.task # r2.task /\ r1.domain = r2.domain) =>
               \/ r1.time - r2.time >= min_delay
               \/ r2.time - r1.time >= min_delay
    /\ \A k \in DOMAIN rate_tasks :
           Cardinality(BetweenReadAndWrite(rate_domains[k])) <= 1

-----------------------------------------------------------------------------
(* Properties of crawl and crawl_multiple, checked under SpecCrawl *)

\* C27: every crawl(url) ends with exactly one CrawledContent and never
\* raises; the lightweight path may hand over to the browser path, the
\* browser path never hands back, so one crawl performs at most one browser
\* fetch and a bounded number of retries; crawl_multiple returns exactly one
\* result per input URL and releases every limiter slot.
C27_CrawlReturns ==
    /\ \A k \in DOMAIN fetches :
           /\ fetches[k].at # "raised"
           /\ fetches[k].browser_fetches <= 1
           /\ fetches[k].retry_count <= 3
           /\ fetches[k].at = "_crawl_with_httpx" =>
                  fetches[k].browser_fetches = 0
           /\ fetches[k].at = "done" <=> fetches[k].result # NoResultYet
    /\ crawl_pc # "ERROR"
    /\ crawl_pc \in {"CURATING", "EXTRACTING"} =>
           /\ \A k \in DOMAIN fetches : fetches[k].at = "done"
           /\ Len(fetches) = Len(urls)
           /\ semaphore = max_concurrent

-----------------------------------------------------------------------------
(* Properties of _crawl_with_httpx for one URL, checked under SpecTrace *)

\* the i-th answer was followed by another attempt of the lightweight client
Retried(i) ==
    i < Len(traced_answers) \/ traced_fetch.at = "_crawl_with_httpx"

\* the attempts made in response to the given status
AttemptsAfter(status_code) ==
    {i \in DOMAIN traced_answers :
        traced_answers[i].outcome = status_code /\ Retried(i)}

\* C28: for one URL the lightweight fetch makes at most 3 attempts in
\* response to HTTP 429, with a growing backoff between them, and at most 2
\* attempts in response to HTTP 503, for every sequence of answers, mixed
\* ones included; a 429 or 503 that is not answered by another attempt ends
\* the fetch as failed with the HTTP status as its error.
C28_BoundedRetries ==
    /\ Cardinality(AttemptsAfter("429")) <= 3
    /\ Cardinality(AttemptsAfter("503")) <= 2
    /\ \A i, j \in AttemptsAfter("429") :
           i < j => Backoff(traced_answers[i].retry_count)
                        < Backoff(traced_answers[j].retry_count)
    /\ \A i \in DOMAIN traced_answers :
           (traced_answers[i].outcome \in {"429", "503"} /\ ~Retried(i)) =>
               /\ traced_fetch.at = "done"
               /\ ~traced_fetch.result.success
               /\ traced_fetch.result.error =
                      (IF traced_answers[i].outcome = "429"
                       THEN "HTTP 429" ELSE "HTTP 503")

\* two attempts after 503 and one after 429, then a 429 that ends the fetch
C28_Witness ==
    /\ traced_fetch.at = "done"
    /\ Len(traced_answers) = 4
    /\ Cardinality(AttemptsAfter("503")) = 2
    /\ Cardinality(AttemptsAfter("429")) = 1
    /\ traced_fetch.result.error = "HTTP 429"

-----------------------------------------------------------------------------
(* Properties of verify_claims_batch, checked under SpecBatch *)

\* the list verify_claims_batch returns (or has built so far)
BatchOutput == [k \in DOMAIN verified_claims |-> batch_claims[verified_claims[k]]]

\* C31: verify_claims_batch marks a claim whose source_id is absent from the
\* source map as verified = false with verification_confidence = 0 without
\* invoking any verification tier, leaves that claim's other fields
\* untouched, and returns all input claims in input order (same length),
\* whatever mix of matched and unmatched claims it is given.
C31_BatchUnmatched ==
    /\ \A k \in DOMAIN BatchOutput :
          /\ BatchOutput[k].id = batch_input[k].id
          /\ BatchOutput[k].source_id = batch_input[k].source_id
          /\ batch_input[k].source_id \notin batch_sources =>
                /\ ~BatchOutput[k].verified
                /\ BatchOutput[k].verification_confidence = 0
                /\ BatchOutput[k].verification_method
                       = batch_input[k].verification_method
                /\ BatchOutput[k].source_excerpt
                       = batch_input[k].source_excerpt
                /\ ~batch_invoked[k]
    /\ batch_pc = "returned" => Len(BatchOutput) = Len(batch_input)

\* a returned batch of a matched claim and an unmatched one that had been
\* verified before
C31_Witness ==
    /\ batch_pc = "returned"
    /\ Len(batch_input) = 2
    /\ batch_invoked = <<TRUE, FALSE>>
    /\ batch_input[2].verified
    /\ batch_input[2].verification_method = "exact"

-----------------------------------------------------------------------------
(* Properties of KnowledgeGraph.add_claim for new claims, checked under
   SpecLink *)

ClaimToClaim(es) == {e \in es : e.from[1] = "claim" /\ e.to[1] = "claim"}

\* the claim-to-claim edges of a graph from one claim to another
EdgesBetween(graph, from_id, to_id) ==
    {e \in ClaimToClaim(graph.edges) :
        e.from = NodeId("claim", from_id) /\ e.to = NodeId("claim", to_id)}

\* what the step of an add_claim of a new claim does to the edges
LinksOfNewClaim ==
    LET c == last_add'.id
        similarities == last_add'.similarities
        added == ClaimToClaim(G'.edges \ G.edges)
        relation_type ==
            IF HasContradictionIndicator(last_add'.text) THEN "CONTRADICTS"
            ELSE IF HasSupportIndicator(last_add'.text) THEN "SUPPORTS"
            ELSE "RELATED_TO"
    IN  /\ c \notin added_claims
        /\ G.edges \subseteq G'.edges
        /\ \A e \in added_claims :
              /\ EdgesBetween(G', e, c) = {}
              /\ IF similarities[e] > 75
                 THEN /\ Cardinality(EdgesBetween(G', c, e)) = 1
                      /\ EdgesBetween(G', c, e) \subseteq added
                 ELSE EdgesBetween(G', c, e) = {}
        /\ \A x \in added :
              /\ x.from = NodeId("claim", c)
              /\ x.to[2] \in added_claims
              /\ x.relation = relation_type

\* C32: add_claim of a new claim c adds, for every previously stored claim e
\* whose embedding similarity with c exceeds 0.75, one directed edge from c
\* to e (never from e to c) and none for the other claims; all
\* claim-to-claim edges added by that call carry the same relation type,
\* determined by c's text alone: CONTRADICTS if it contains a contradiction
\* indicator, else SUPPORTS if it contains a support indicator, else
\* RELATED_TO.
C32_LinkedEdges == [][add_order' # add_order => LinksOfNewClaim]_vars

\* a third claim holding both kinds of indicator was linked to one of the two
\* stored claims and not to the other
C32_Witness ==
    /\ Len(add_order) = 3
    /\ last_add.text = "however supports"
    /\ \E e, f \in DOMAIN last_add.similarities :
          /\ last_add.similarities[e] > 75
          /\ last_add.similarities[f] <= 75
          /\ EdgesBetween(G, last_add.id, e) # {}
          /\ EdgesBetween(G, last_add.id, f) = {}

\* the position of a claim in the order of the add_claim calls
AddedAt(id) == CHOOSE k \in DOMAIN add_order : add_order[k] = id

\* the claims a claim-to-claim path of at most n edges leads to from a claim
RECURSIVE ReachedFrom(_, _)
ReachedFrom(id, n) ==
    IF n = 0 THEN {}
    ELSE LET nearer == ReachedFrom(id, n - 1)
         IN  nearer \cup
             {e.to[2] : e \in {x \in ClaimToClaim(G.edges) :
                                  x.from[2] \in nearer \cup {id}}}

\* C38: when claims with pairwise distinct ids are added one at a time with
\* add_claim (and add_claim_relation is not used), every claim-to-claim edge
\* points from a later-added claim to an earlier-added one: the first claim
\* added has no outgoing claim-to-claim edge, and the claim-to-claim subgraph
\* contains no cycle and no pair of opposite edges.
C38_LaterToEarlier ==
    /\ \A e \in ClaimToClaim(G.edges) :
          /\ {e.from[2], e.to[2]} \subseteq added_claims
          /\ AddedAt(e.from[2]) > AddedAt(e.to[2])
          /\ e.from[2] # add_order[1]
          /\ EdgesBetween(G, e.to[2], e.from[2]) = {}
    /\ \A id \in added_claims :
          id \notin ReachedFrom(id, Cardinality(added_claims))

\* three claims, each linked to every claim added before it
C38_Witness ==
    /\ Len(add_order) = 3
    /\ Cardinality(ClaimToClaim(G.edges)) = 3
    /\ add_order[1] \in ReachedFrom(add_order[3], 1)
    /\ add_order[1] \in ReachedFrom(add_order[2], 1)

-----------------------------------------------------------------------------
(* Properties of the steps of curate, checked under SpecCurate *)

Ids(list) == {list[k].id : k \in 1..Len(list)}

\* the candidates of semantic deduplication that it removed / kept
Removed == Ids(Candidates(crawled)) \ Ids(retained)

\* the score _calculate_credibility gives a source after deduplication
LaterCredibility(source) == _calculate_credibility(source).credibility_score

\* C33: inside curate, semantic dedup runs before credibility is computed, so
\* every candidate carries the same default score when pairs are compared:
\* of every compared pair above 0.85 it is the later-indexed source that is
\* removed, and the first candidate is never removed by semantic dedup,
\* whatever credibility the sources receive afterwards.
C33_LaterRemoved ==
    Curated =>
        LET candidates == Candidates(crawled)
        IN  /\ \A k \in 1..Len(candidates) :
                  candidates[k].credibility_score = DefaultCredibility
            /\ candidates # <<>> =>
                  retained # <<>> /\ retained[1] = candidates[1]
            /\ \A i, j \in 1..Len(candidates) :
                  (/\ i < j
                   /\ candidates[i].id \notin Removed
                   /\ Similarity(similarity, candidates[i], candidates[j])
                          > similarity_threshold)
                      => candidates[j].id \in Removed
            /\ \A j \in 1..Len(candidates) :
                  candidates[j].id \in Removed =>
                      \E i \in 1..(j - 1) :
                          /\ candidates[i].id \notin Removed
                          /\ Similarity(similarity, candidates[i],
                                        candidates[j]) > similarity_threshold

\* a candidate was removed for the sake of an earlier one that scores lower
\* once credibility is computed
C33_Witness ==
    /\ Curated
    /\ \E i, j \in 1..Len(Candidates(crawled)) :
          LET candidates == Candidates(crawled)
          IN  /\ i < j
              /\ candidates[i].id \notin Removed
              /\ candidates[j].id \in Removed
              /\ LaterCredibility(candidates[i])
                     < LaterCredibility(candidates[j])

\* the sources of the deduplicated list that pass both thresholds, scored
Passing ==
    {k \in 1..Len(retained) :
        /\ LaterCredibility(retained[k]) >= min_credibility
        /\ retained[k].relevance >= min_relevance}

\* 0.6 * credibility + 0.4 * relevance, times ten
CombinedScore(source) ==
    6 * source.credibility_score + 4 * source.credibility_factors["relevance"]

\* C34: curate's output is exactly the deduplicated sources that pass both
\* thresholds (credibility_score >= minCredibility and relevance >=
\* minRelevance), ordered by 0.6*credibility + 0.4*relevance descending and
\* cut to the first maxSources; so every returned source meets both
\* thresholds, the list is sorted by that score, and its length never
\* exceeds maxSources.
C34_Output ==
    Curated =>
        LET final == curation.sources
            passing == {retained[k].id : k \in Passing}
        IN  /\ Ids(final) \subseteq passing
            /\ Cardinality(Ids(final)) = Len(final)
            /\ Len(final) = IF Cardinality(passing) < max_sources
                            THEN Cardinality(passing) ELSE max_sources
            /\ Len(final) <= max_sources
            /\ \A k \in 1..Len(final) :
                  /\ final[k].credibility_score >= min_credibility
                  /\ final[k].credibility_factors["relevance"] >= min_relevance
                  /\ final[k].credibility_score = LaterCredibility(final[k])
                  /\ final[k].credibility_factors["relevance"]
                         = final[k].relevance
            /\ \A a, b \in 1..Len(final) :
                  a < b => CombinedScore(final[a]) >= CombinedScore(final[b])
            /\ \A k \in Passing :
                  retained[k].id \notin Ids(final) =>
                      \A a \in 1..Len(final) :
                          CombinedScore(final[a])
                              >= CombinedScore(_calculate_relevance(
                                     _calculate_credibility(retained[k])))

\* two sources passed, the later one of the input ranks first and the cut
\* to max_sources drops the other
C34_Witness ==
    /\ Curated
    /\ Cardinality(Passing) = 2
    /\ Len(retained) = 3
    /\ max_sources = 1
    /\ Len(curation.sources) = 1
    /\ \E k \in Passing : k > 1 /\ retained[k].id = curation.sources[1].id
                             /\ 1 \in Passing

-----------------------------------------------------------------------------
(* Properties of the events of a run, checked under Spec *)

IsReportEvent(e) == e.type = "report"

ReportEvents == SelectSeq(emitted, IsReportEvent)

\* C35: in one run the report event and the error event are mutually
\* exclusive: the report is emitted at most once, only after SYNTHESIZING, and
\* a run that has emitted the report never ends in ERROR nor emits an error
\* event afterwards (the stream ends with exactly one of the two).
C35_ReportOrError ==
    /\ Len(ReportEvents) <= 1
    /\ ReportEvents # <<>> => "SYNTHESIZING" \in Range(phases)
    /\ ReportEvents # <<>> => ErrorEvents = <<>> /\ phase # "ERROR"
    /\ Finished => Len(ReportEvents) + Len(ErrorEvents) = 1

Unverified(node) == ~node.verified /\ node.verification_confidence = 0

\* C37: because BUILDING_GRAPH precedes VERIFYING and a claim node stores a
\* copy of the claim's verification fields taken when it is inserted, every
\* claim node of the session's graph - in the emitted graph event and in the
\* graph snapshot saved on the session at SYNTHESIZING - carries verified =
\* false and verification_confidence = 0, whatever outcome VERIFYING assigns
\* to the claim.
C37_NodesUnverified ==
    /\ \A k \in DOMAIN graph_nodes : Unverified(graph_nodes[k])
    /\ \A k \in DOMAIN graph_event_nodes : Unverified(graph_event_nodes[k])
    /\ \A k \in DOMAIN graph_data : Unverified(graph_data[k])
    /\ \A j \in DOMAIN phases :
          phases[j] = "VERIFYING" =>
              /\ \E i \in 1..(j - 1) : phases[i] = "BUILDING_GRAPH"
              /\ Len(graph_nodes) = Len(claims)
    /\ \A k \in DOMAIN claims :
          claims[k].verification_writes > 0 => "VERIFYING" \in Range(phases)
    /\ final_report =>
          /\ Len(graph_data) = Len(claims)
          /\ \A k \in DOMAIN graph_data : graph_data[k].claim_id = claims[k].id
    /\ (\E e \in Range(emitted) : e.type = "graph") =>
          Len(graph_event_nodes) = Len(claims)

\* the report of a run whose claim was verified: the saved node of the claim
\* still says it is not
C37_Witness ==
    /\ final_report
    /\ Len(graph_data) >= 1
    /\ claims[1].verified
    /\ claims[1].verification_confidence = 95
    /\ ~graph_data[1].verified
    /\ Len(graph_event_nodes) >= 1

\* a step of run that hands events to emit, with the given outcome of emit
EmittingStep(outcome) ==
    \/ update_phase_emitting(outcome)
    \/ _crawl_emitting(outcome)
    \/ extract_collect_emitting(outcome)
    \/ extract_collect_error_emitting(outcome)
    \/ _build_graph_emitting(outcome)
    \/ _debate_emitting(outcome)
    \/ _synthesize_emitting(outcome)
    \/ except_handler_emitting(outcome)

\* C36: a websocket send that raises never changes the session's course: the
\* step in which it raised moves the session (phase, phase sequence, status,
\* position in run) exactly as the same step does when the send works and
\* when there is no websocket
C36_EmitSwallows ==
    [][(emitted' # emitted /\ last_send' = "raises")
          => EmittingStep("sent") /\ EmittingStep("skipped")]_vars

C36_Witness ==
    /\ pc = "returned"
    /\ websocket = "connected"
    /\ last_send = "raises"
    /\ status = "completed"
    /\ phase = "COMPLETE"
    /\ \E k \in 1..Len(emitted) : emitted[k] = ReportEvent

\* C39: _score_domain is a function of the domain alone: whatever order the
\* trusted-domain set is iterated in, the score of the domain is the one the
\* call returned, also for a domain in which a 0.4 entry and a 0.35 entry
\* occur, and a domain with a trusted entry and a low-quality indicator gets
\* a trusted score
C39_ScoreDeterministic ==
    domain_authority # <<>> =>
        /\ \A order \in IterationOrders :
              _score_domain_iterating(scored_domain, order) = domain_authority[1]
        /\ (\E trusted \in TRUSTED_DOMAINS : Occurs(trusted, scored_domain))
              => domain_authority[1] \in {35, 40}

\* the characters of the text that lie in the k-th chunk
CharactersOf(k) == (chunks[k].start + 1)..(chunks[k].start + chunks[k].length)

\* C40: _chunk_text terminates for the parameter pairs the engine uses: the
\* start offset strictly increases on every iteration, every chunk is at most
\* chunk_size characters long, and every character of the text lies in at
\* least one unstripped chunk
C40_ChunkText ==
    /\ [][Len(chunks') > Len(chunks) => chunk_start' > chunk_start]_vars
    /\ [](\A k \in 1..Len(chunks) :
             chunks[k].length <= chunk_args[1].chunk_size)
    /\ [](chunk_pc = "returned" =>
             \A c \in 1..chunk_args[1].length :
                 \E k \in 1..Len(chunks) : c \in CharactersOf(k))
    /\ <>(chunk_pc = "returned")

C40_Witness ==
    /\ chunk_pc = "returned"
    /\ chunk_args[1].length = 1300
    /\ Len(chunks) >= 4
    /\ \E k \in 1..Len(chunks) :
          chunks[k].length < chunk_args[1].chunk_size /\ k < Len(chunks) - 1

=============================================================================
